---- MODULE Spec2Model ----
(***************************************************************************)
(* A model of the recipe materialization pipeline of adcp-core:            *)
(*   core/utils       ExecuteCommand, FetchGithub                          *)
(*   core             GenerationContext                                    *)
(*   core/prefetch    Processor.Process, processEntry                      *)
(*   core/generators  Context.Materialize, materializeEntry, fetchContent, *)
(*                    fetchCombined, fetchCombinedItem                     *)
(*   core/plugins     shared.IDE.Materialize, materializeCommands          *)
(*   core/recipes     Recipe.Materialize                                   *)
(*                                                                         *)
(* Go strings are TLA+ strings (\o is concatenation).  A Go error is the   *)
(* sequence of its wrapping layers, outermost first; the nil error is the  *)
(* empty sequence.  Every function of the code is an operator that returns *)
(* a record holding the error, the value and the external calls (shell     *)
(* commands run, URLs fetched) the function made, in the order made.       *)
(***************************************************************************)
EXTENDS Integers, Sequences, FiniteSets, TLC

\* Bounds of the inputs.
MaxItems == 2
MaxPrefetch == 2
MaxEntries == 2
MaxStrings == 3
MaxRuns == 3
MaxCommands == 2
MaxSegments == 6

(***************************************************************************)
(* Errors: fmt.Errorf("msg ...: %w", err) puts a layer in front of err.    *)
(* A layer holds the message and the value formatted into it (an index or  *)
(* a string; idx = -1 and str = "" when the message formats none).         *)
(***************************************************************************)
NoError == <<>>

Layer(msg, idx, str) == [msg |-> msg, idx |-> idx, str |-> str]

Errorf(msg) == <<Layer(msg, -1, "")>>

Wrap(layer, err) == <<layer>> \o err

IsError(err) == err # NoError

(***************************************************************************)
(* The environment: the shell and the HTTP server.  Each command string    *)
(* stands for one behaviour of `sh -c`: the exit status and the combined   *)
(* output.  The Pf* outputs are protojson documents of adcp.PrefetchResult.*)
(***************************************************************************)
PfOut1 == "{\"data\":[{\"id\":\"k1\",\"data\":\"x\"},{\"id\":\"k2\",\"data\":\"y\"}]}"
PfOut2 == "{\"data\":[{\"id\":\"k1\",\"data\":\"z\"}],\"extra\":1}"
PfOut3 == "{\"data\":[{\"id\":\"k2\",\"data\":\"w\"},{\"id\":\"k2\",\"data\":\"v\"}]}"
PfOut4 == "{}"

Sh(cmd) ==
  CASE cmd = "echo c"       -> [exit |-> 0, out |-> "c\n"]
    [] cmd = "exit 1"       -> [exit |-> 1, out |-> ""]
    [] cmd = "cat pf1.json" -> [exit |-> 0, out |-> PfOut1]
    [] cmd = "cat pf2.json" -> [exit |-> 0, out |-> PfOut2]
    [] cmd = "cat pf3.json" -> [exit |-> 0, out |-> PfOut3]
    [] cmd = "cat pf4.json" -> [exit |-> 0, out |-> PfOut4]
    [] OTHER                -> [exit |-> 127, out |-> "sh: not found\n"]

RawOk == "https://raw.githubusercontent.com/org/repo/main/f.md"
RawMissing == "https://raw.githubusercontent.com/org/repo/main/missing.md"
BlobOk == "https://github.com/org/repo/blob/main/f.md"
TreeOnly == "https://github.com/org/repo/tree/main"

HttpGet(url) ==
  IF url = RawOk THEN [status |-> 200, body |-> "# f"]
  ELSE [status |-> 404, body |-> "Not Found"]

ShCall(cmd) == [kind |-> "sh", arg |-> cmd]

HttpCall(url) == [kind |-> "http", arg |-> url]

\* ExecuteCommand as it would be if a failed command were run a second time.
ExecuteCommandRetrying(cmd) ==
  IF cmd = "" THEN
    [err |-> Errorf("command cannot be empty"), val |-> "", calls |-> <<>>]
  ELSE
    LET r == Sh(cmd) IN
    IF r.exit # 0 THEN
      [err |-> <<Layer("command execution failed", r.exit, r.out)>>,
       val |-> "", calls |-> <<ShCall(cmd), ShCall(cmd)>>]
    ELSE
      [err |-> NoError, val |-> r.out, calls |-> <<ShCall(cmd)>>]

(***************************************************************************)
(* utils.ExecuteCommand: the empty command is rejected before any shell    *)
(* runs; a non-zero exit is an error; the output is returned verbatim.     *)
(***************************************************************************)
ExecuteCommand(cmd) ==
  IF cmd = "" THEN
    [err |-> Errorf("command cannot be empty"), val |-> "", calls |-> <<>>]
  ELSE
    LET r == Sh(cmd) IN
    IF r.exit # 0 THEN
      [err |-> <<Layer("command execution failed", r.exit, r.out)>>,
       val |-> "", calls |-> <<ShCall(cmd)>>]
    ELSE
      [err |-> NoError, val |-> r.out, calls |-> <<ShCall(cmd)>>]

(***************************************************************************)
(* utils.ConvertToRawURL.  A path string is held together with its parts:  *)
(* the scheme prefix, the host, and the segments that follow the host's    *)
(* slash, so that text = scheme \o host \o "/" \o the segments joined by   *)
(* "/".  No segment of the model holds a host name or a slash.             *)
(***************************************************************************)
\* strings.Join(parts, sep)
RECURSIVE Join(_, _)
Join(parts, sep) ==
  IF Len(parts) = 0 THEN ""
  ELSE IF Len(parts) = 1 THEN parts[1]
       ELSE parts[1] \o sep \o Join(Tail(parts), sep)

GithubPath(scheme, host, segs) ==
  [text |-> scheme \o host \o "/" \o Join(segs, "/"),
   scheme |-> scheme, host |-> host, segs |-> segs]

\* The parts of the path strings the sources of the model hold; a string
\* without a host is held as it is.
ParsePath(text) ==
  CASE text = RawOk ->
         GithubPath("https://", "raw.githubusercontent.com", <<"org", "repo", "main", "f.md">>)
    [] text = RawMissing ->
         GithubPath("https://", "raw.githubusercontent.com",
                    <<"org", "repo", "main", "missing.md">>)
    [] text = BlobOk ->
         GithubPath("https://", "github.com", <<"org", "repo", "blob", "main", "f.md">>)
    [] text = TreeOnly ->
         GithubPath("https://", "github.com", <<"org", "repo", "tree", "main">>)
    [] OTHER -> [text |-> text, scheme |-> "", host |-> "", segs |-> <<text>>]

\* strings.Contains(githubPath, substr) for the two host names looked for.
Contains(p, substr) ==
  \/ substr = "raw.githubusercontent.com" /\ p.host = "raw.githubusercontent.com"
  \/ substr = "github.com" /\ p.host \in {"github.com", "www.github.com"}

\* The segments of the string left by the three strings.TrimPrefix calls.
TrimPrefixes(p) ==
  IF p.host = "github.com" THEN p.segs ELSE <<p.host>> \o p.segs

\* strings.SplitN(s, "/", n) on the segments of s
SplitN(segs, n) ==
  IF Len(segs) <= n THEN segs
  ELSE SubSeq(segs, 1, n - 1) \o <<Join(SubSeq(segs, n, Len(segs)), "/")>>

\* *adcp.GitVersion: nil, or a oneof of a tag and a commit.
NilVersion == [isNil |-> TRUE, type |-> "Unset", value |-> ""]

GitVersion(type, value) == [isNil |-> FALSE, type |-> type, value |-> value]

RawURL(owner, repo, ref, filePath) ==
  "https://raw.githubusercontent.com/" \o owner \o "/" \o repo \o "/" \o ref \o "/" \o filePath

\* ConvertToRawURL as it would be if the blob and tree forms were recognized
\* from three segments on.
ConvertToRawURLFromThree(p, version) ==
  IF Contains(p, "raw.githubusercontent.com") \/ ~Contains(p, "github.com") THEN
    [err |-> NoError, val |-> p.text]
  ELSE
    LET githubPath == TrimPrefixes(p)
        parts == SplitN(githubPath, 5)
        invalid == [err |-> <<Layer("invalid github path format", -1, Join(githubPath, "/"))>>,
                    val |-> ""]
    IN  IF Len(parts) >= 3 /\ parts[3] \in {"blob", "tree"} THEN
          IF Len(parts) < 5 THEN invalid
          ELSE [err |-> NoError, val |-> RawURL(parts[1], parts[2], parts[4], parts[5])]
        ELSE IF Len(parts) >= 3 THEN
          LET ref == IF ~version.isNil /\ version.type \in {"Tag", "Commit"}
                     THEN version.value ELSE "main"
          IN  [err |-> NoError,
               val |-> RawURL(parts[1], parts[2], ref,
                              Join(SubSeq(parts, 3, Len(parts)), "/"))]
        ELSE invalid

\* ConvertToRawURL as it would be if the version were looked at only for a tag.
ConvertToRawURLTagOnly(p, version) ==
  IF Contains(p, "raw.githubusercontent.com") \/ ~Contains(p, "github.com") THEN
    [err |-> NoError, val |-> p.text]
  ELSE
    LET githubPath == TrimPrefixes(p)
        parts == SplitN(githubPath, 5)
        invalid == [err |-> <<Layer("invalid github path format", -1, Join(githubPath, "/"))>>,
                    val |-> ""]
    IN  IF Len(parts) >= 4 /\ parts[3] \in {"blob", "tree"} THEN
          IF Len(parts) < 5 THEN invalid
          ELSE [err |-> NoError, val |-> RawURL(parts[1], parts[2], parts[4], parts[5])]
        ELSE IF Len(parts) >= 3 THEN
          LET ref == IF ~version.isNil /\ version.type = "Tag"
                     THEN version.value ELSE "main"
          IN  [err |-> NoError,
               val |-> RawURL(parts[1], parts[2], ref,
                              Join(SubSeq(parts, 3, Len(parts)), "/"))]
        ELSE invalid

\* utils.ConvertToRawURL
InvalidGithubPath(githubPath) ==
  [err |-> <<Layer("invalid github path format", -1, Join(githubPath, "/"))>>, val |-> ""]

\* ConvertToRawURL from the split on: the trimmed path and its parts
ConvertParts(githubPath, parts, version) ==
  IF Len(parts) >= 4 /\ parts[3] \in {"blob", "tree"} THEN
    IF Len(parts) < 5 THEN InvalidGithubPath(githubPath)
    ELSE [err |-> NoError, val |-> RawURL(parts[1], parts[2], parts[4], parts[5])]
  ELSE IF Len(parts) >= 3 THEN
    [err |-> NoError,
     val |-> RawURL(parts[1], parts[2],
                    IF ~version.isNil /\ version.type \in {"Tag", "Commit"}
                    THEN version.value ELSE "main",
                    Join(SubSeq(parts, 3, Len(parts)), "/"))]
  ELSE InvalidGithubPath(githubPath)

ConvertToRawURL(p, version) ==
  IF Contains(p, "raw.githubusercontent.com") \/ ~Contains(p, "github.com") THEN
    [err |-> NoError, val |-> p.text]
  ELSE
    ConvertParts(TrimPrefixes(p), SplitN(TrimPrefixes(p), 5), version)

(***************************************************************************)
(* utils.FetchGithub: a nil reference and an empty path are rejected; the  *)
(* path is converted to a raw-content URL, which is fetched once; any      *)
(* status other than 200 is an error.                                      *)
(***************************************************************************)
NilRef == [isNil |-> TRUE, path |-> "", version |-> NilVersion]

GitRef(path) == [isNil |-> FALSE, path |-> path, version |-> NilVersion]

\* fetchGithub from the conversion's return on: its error is returned as it is,
\* else the URL is requested once.
FetchConverted(conv) ==
  IF IsError(conv.err) THEN
    [err |-> conv.err, val |-> "", calls |-> <<>>]
  ELSE IF HttpGet(conv.val).status # 200 THEN
    [err |-> <<Layer("github fetch returned status", HttpGet(conv.val).status, "")>>,
     val |-> "", calls |-> <<HttpCall(conv.val)>>]
  ELSE
    [err |-> NoError, val |-> HttpGet(conv.val).body, calls |-> <<HttpCall(conv.val)>>]

FetchGithub(ref) ==
  IF ref.isNil THEN
    [err |-> Errorf("github reference cannot be nil"), val |-> "", calls |-> <<>>]
  ELSE IF ref.path = "" THEN
    [err |-> Errorf("github path cannot be empty"), val |-> "", calls |-> <<>>]
  ELSE
    FetchConverted(ConvertToRawURL(ParsePath(ref.path), ref.version))

(***************************************************************************)
(* core.GenerationContext.  A Go map is a record: nil or not, and its      *)
(* key/value function.  GetPrefetched is nil-safe.                         *)
(***************************************************************************)
NilMap == [isNil |-> TRUE, kv |-> <<>>]

MakeMap == [isNil |-> FALSE, kv |-> <<>>]

MapSet(m, k, v) ==
  [isNil |-> FALSE,
   kv |-> [x \in (DOMAIN m.kv) \cup {k} |-> IF x = k THEN v ELSE m.kv[x]]]

MapHas(m, k) == k \in DOMAIN m.kv

NilGenCtx == [isNil |-> TRUE, Prefetched |-> NilMap]

GenerationContext(prefetched) == [isNil |-> FALSE, Prefetched |-> prefetched]

GetPrefetched(g) == IF g.isNil THEN NilMap ELSE g.Prefetched

FetchedData(id, data) == [id |-> id, data |-> data]

(***************************************************************************)
(* protojson.UnmarshalOptions{DiscardUnknown: true}.Unmarshal into         *)
(* adcp.PrefetchResult: the {id, data} pairs of the document in document   *)
(* order; unknown fields are dropped; anything else is a syntax error.     *)
(***************************************************************************)
UnmarshalPrefetchResult(data) ==
  CASE data = PfOut1 ->
         [err |-> NoError, data |-> <<FetchedData("k1", "x"), FetchedData("k2", "y")>>]
    [] data = PfOut2 ->
         [err |-> NoError, data |-> <<FetchedData("k1", "z")>>]
    [] data = PfOut3 ->
         [err |-> NoError, data |-> <<FetchedData("k2", "w"), FetchedData("k2", "v")>>]
    [] data = PfOut4 ->
         [err |-> NoError, data |-> <<>>]
    [] OTHER ->
         [err |-> Errorf("proto: syntax error"), data |-> <<>>]

(***************************************************************************)
(* adcp.Prefetch and adcp.PrefetchEntry.  An entry is nil, has no type     *)
(* set, or is a Cmd.                                                       *)
(***************************************************************************)
NilPrefetch == [isNil |-> TRUE, entries |-> <<>>]

Prefetch(entries) == [isNil |-> FALSE, entries |-> entries]

NilPfEntry == [type |-> "nil"]

UnsetPfEntry == [type |-> "Unset"]

CmdPfEntry(cmd) == [type |-> "Cmd", cmd |-> cmd]

\* Processor.processEntry
processEntry(entry) ==
  IF entry.type = "Cmd" THEN
    IF entry.cmd = "" THEN
      [err |-> Errorf("cmd cannot be empty"), val |-> "", calls |-> <<>>]
    ELSE
      LET r == ExecuteCommand(entry.cmd) IN
      IF IsError(r.err) THEN
        [err |-> Wrap(Layer("command execution failed", -1, ""), r.err),
         val |-> "", calls |-> r.calls]
      ELSE r
  ELSE
    [err |-> Errorf("unknown or unset prefetch entry type"), val |-> "", calls |-> <<>>]

\* StorePairs as it would be if a pair never replaced a stored one.
RECURSIVE StorePairsKeepFirst(_, _, _)
StorePairsKeepFirst(result, data, k) ==
  IF k > Len(data) THEN result
  ELSE IF MapHas(result, data[k].id)
       THEN StorePairsKeepFirst([result EXCEPT !.isNil = FALSE], data, k + 1)
       ELSE StorePairsKeepFirst(MapSet(result, data[k].id, data[k]), data, k + 1)

\* The inner loop of Process: result[d.GetId()] = d for each pair in order.
RECURSIVE StorePairs(_, _, _)
StorePairs(result, data, k) ==
  IF k > Len(data) THEN result
  ELSE StorePairs(MapSet(result, data[k].id, data[k]), data, k + 1)

\* The loop of Processor.Process from entry i (1-based; the Go index is i - 1).
RECURSIVE ProcessLoop(_, _, _, _)
ProcessLoop(entries, i, result, calls) ==
  IF i > Len(entries) THEN
    [err |-> NoError, map |-> result, calls |-> calls]
  ELSE IF entries[i].type = "nil" THEN
    [err |-> <<Layer("prefetch entry at index is nil", i - 1, "")>>,
     map |-> NilMap, calls |-> calls]
  ELSE
    LET d == processEntry(entries[i]) IN
    IF IsError(d.err) THEN
      [err |-> Wrap(Layer("failed to process entry at index", i - 1, ""), d.err),
       map |-> NilMap, calls |-> calls \o d.calls]
    ELSE
      LET res == UnmarshalPrefetchResult(d.val) IN
      IF IsError(res.err) THEN
        [err |-> Wrap(Layer("failed to unmarshal prefetch result", -1, ""), res.err),
         map |-> NilMap, calls |-> calls \o d.calls]
      ELSE
        ProcessLoop(entries, i + 1, StorePairs(result, res.data, 1), calls \o d.calls)

\* Processor.Process
Process(prefetch) ==
  IF Len(prefetch.entries) = 0 THEN
    [err |-> NoError, map |-> NilMap, calls |-> <<>>]
  ELSE ProcessLoop(prefetch.entries, 1, MakeMap, <<>>)

(***************************************************************************)
(* adcp.ContextFrom, adcp.CombinedContextSource and its items, and         *)
(* adcp.ContextEntry.  A oneof is a record whose type field names the      *)
(* variant set ("Unset" when none is).                                     *)
(***************************************************************************)
NilFrom == [type |-> "nil"]

UnsetFrom == [type |-> "Unset"]

TextFrom(text) == [type |-> "Text", text |-> text]

CmdFrom(cmd) == [type |-> "Cmd", cmd |-> cmd]

GithubFrom(path) == [type |-> "Github", github |-> GitRef(path)]

PrefetchIdFrom(id) == [type |-> "PrefetchId", prefetchId |-> id]

CombinedFrom(items) == [type |-> "Combined", combined |-> [isNil |-> FALSE, items |-> items]]

ContextEntry(path, from) == [path |-> path, from |-> from]

NilContext == [isNil |-> TRUE, entries |-> <<>>]

Context(entries) == [isNil |-> FALSE, entries |-> entries]

\* adcp.MaterializedResult_Entry wrapping a FullFileContent
FileEntry(path, content) == [path |-> path, content |-> content]

\* A nil *adcp.MaterializedResult, and one built from its entries.
NilResult == [isNil |-> TRUE, entries |-> <<>>]

MaterializedResult(entries) == [isNil |-> FALSE, entries |-> entries]

\* LookupPrefetched as it would be if the map's ok flag were ignored.
LookupPrefetchedUnchecked(genCtx, id) ==
  LET m == GetPrefetched(genCtx) IN
  [err |-> NoError, val |-> IF MapHas(m, id) THEN m.kv[id].data ELSE "", calls |-> <<>>]

\* The PrefetchId case of fetchContent and of fetchCombinedItem.
LookupPrefetched(genCtx, id) ==
  LET m == GetPrefetched(genCtx) IN
  IF ~MapHas(m, id) THEN
    [err |-> <<Layer("prefetch id not found", -1, id)>>, val |-> "", calls |-> <<>>]
  ELSE
    [err |-> NoError, val |-> m.kv[id].data, calls |-> <<>>]

\* Context.fetchCombinedItem
fetchCombinedItem(item, genCtx) ==
  CASE item.type = "nil" ->
         [err |-> Errorf("combined item cannot be nil"), val |-> "", calls |-> <<>>]
    [] item.type = "Text" ->
         [err |-> NoError, val |-> item.text, calls |-> <<>>]
    [] item.type = "Cmd" -> ExecuteCommand(item.cmd)
    [] item.type = "Github" -> FetchGithub(item.github)
    [] item.type = "PrefetchId" -> LookupPrefetched(genCtx, item.prefetchId)
    [] OTHER ->
         [err |-> Errorf("unknown or unset combined item type"), val |-> "", calls |-> <<>>]

\* fetchCombinedLoop as it would be if a newline were written between the items.
RECURSIVE fetchCombinedLoopSeparated(_, _, _, _, _)
fetchCombinedLoopSeparated(items, i, builder, calls, genCtx) ==
  IF i > Len(items) THEN
    [err |-> NoError, val |-> builder, calls |-> calls]
  ELSE
    LET c == fetchCombinedItem(items[i], genCtx) IN
    IF IsError(c.err) THEN
      [err |-> Wrap(Layer("failed to fetch combined item", i - 1, ""), c.err),
       val |-> "", calls |-> calls \o c.calls]
    ELSE
      fetchCombinedLoopSeparated(items, i + 1,
                                 IF i = 1 THEN c.val ELSE builder \o "\n" \o c.val,
                                 calls \o c.calls, genCtx)

\* fetchCombinedLoop as it would be if the error reported the item's ordinal.
RECURSIVE fetchCombinedLoopOneBased(_, _, _, _, _)
fetchCombinedLoopOneBased(items, i, builder, calls, genCtx) ==
  IF i > Len(items) THEN
    [err |-> NoError, val |-> builder, calls |-> calls]
  ELSE
    LET c == fetchCombinedItem(items[i], genCtx) IN
    IF IsError(c.err) THEN
      [err |-> Wrap(Layer("failed to fetch combined item", i, ""), c.err),
       val |-> "", calls |-> calls \o c.calls]
    ELSE
      fetchCombinedLoopOneBased(items, i + 1, builder \o c.val, calls \o c.calls, genCtx)

\* The loop of fetchCombined from item i (1-based; the Go index is i - 1).
RECURSIVE fetchCombinedLoop(_, _, _, _, _)
fetchCombinedLoop(items, i, builder, calls, genCtx) ==
  IF i > Len(items) THEN
    [err |-> NoError, val |-> builder, calls |-> calls]
  ELSE
    LET c == fetchCombinedItem(items[i], genCtx) IN
    IF IsError(c.err) THEN
      [err |-> Wrap(Layer("failed to fetch combined item", i - 1, ""), c.err),
       val |-> "", calls |-> calls \o c.calls]
    ELSE
      fetchCombinedLoop(items, i + 1, builder \o c.val, calls \o c.calls, genCtx)

\* Context.fetchCombined
fetchCombined(combined, genCtx) ==
  IF combined.isNil THEN
    [err |-> Errorf("combined source cannot be nil"), val |-> "", calls |-> <<>>]
  ELSE IF Len(combined.items) = 0 THEN
    [err |-> NoError, val |-> "", calls |-> <<>>]
  ELSE fetchCombinedLoop(combined.items, 1, "", <<>>, genCtx)

\* Context.fetchContent
fetchContent(from, genCtx) ==
  CASE from.type = "nil" ->
         [err |-> Errorf("from source cannot be nil"), val |-> "", calls |-> <<>>]
    [] from.type = "Text" ->
         [err |-> NoError, val |-> from.text, calls |-> <<>>]
    [] from.type = "Cmd" -> ExecuteCommand(from.cmd)
    [] from.type = "Github" -> FetchGithub(from.github)
    [] from.type = "Combined" -> fetchCombined(from.combined, genCtx)
    [] from.type = "PrefetchId" -> LookupPrefetched(genCtx, from.prefetchId)
    [] OTHER ->
         [err |-> Errorf("unknown or unset context source type"), val |-> "", calls |-> <<>>]

\* Context.materializeEntry
materializeEntry(entry, genCtx) ==
  IF entry.path = "" THEN
    [err |-> Errorf("entry path cannot be empty"), entries |-> <<>>, calls |-> <<>>]
  ELSE IF entry.from.type = "nil" THEN
    [err |-> Errorf("entry must have a 'from' source"), entries |-> <<>>, calls |-> <<>>]
  ELSE
    LET c == fetchContent(entry.from, genCtx) IN
    IF IsError(c.err) THEN
      [err |-> Wrap(Layer("failed to fetch content", -1, ""), c.err),
       entries |-> <<>>, calls |-> c.calls]
    ELSE
      [err |-> NoError, entries |-> <<FileEntry(entry.path, c.val)>>, calls |-> c.calls]

\* ContextLoop as it would be if a failing entry were skipped.
RECURSIVE ContextLoopSkipFailed(_, _, _, _, _)
ContextLoopSkipFailed(entries, i, resultEntries, calls, genCtx) ==
  IF i > Len(entries) THEN
    [err |-> NoError, result |-> MaterializedResult(resultEntries), calls |-> calls]
  ELSE
    LET m == materializeEntry(entries[i], genCtx) IN
    ContextLoopSkipFailed(entries, i + 1, resultEntries \o m.entries, calls \o m.calls, genCtx)

\* ContextLoop as it would be if an entry replaced the earlier ones of its path.
RECURSIVE ContextLoopDedup(_, _, _, _, _)
ContextLoopDedup(entries, i, resultEntries, calls, genCtx) ==
  IF i > Len(entries) THEN
    [err |-> NoError, result |-> MaterializedResult(resultEntries), calls |-> calls]
  ELSE
    LET m == materializeEntry(entries[i], genCtx) IN
    IF IsError(m.err) THEN
      [err |-> Wrap(Layer("failed to materialize entry for path", -1, entries[i].path),
                    m.err),
       result |-> NilResult, calls |-> calls \o m.calls]
    ELSE
      ContextLoopDedup(entries, i + 1,
                       SelectSeq(resultEntries, LAMBDA e : e.path # entries[i].path)
                       \o m.entries,
                       calls \o m.calls, genCtx)

\* ContextLoop as it would be if every entry were resolved before the first
\* failure is reported.
RECURSIVE ContextLoopEager(_, _, _, _, _)
ContextLoopEager(entries, i, resultEntries, calls, genCtx) ==
  IF i > Len(entries) THEN
    [err |-> NoError, result |-> MaterializedResult(resultEntries), calls |-> calls]
  ELSE
    LET m == materializeEntry(entries[i], genCtx)
        rest == ContextLoopEager(entries, i + 1, resultEntries \o m.entries,
                                 calls \o m.calls, genCtx)
    IN  IF IsError(m.err) THEN
          [err |-> Wrap(Layer("failed to materialize entry for path", -1, entries[i].path),
                        m.err),
           result |-> NilResult, calls |-> rest.calls]
        ELSE rest

\* The loop of Context.Materialize from entry i (1-based).
RECURSIVE ContextLoop(_, _, _, _, _)
ContextLoop(entries, i, resultEntries, calls, genCtx) ==
  IF i > Len(entries) THEN
    [err |-> NoError, result |-> MaterializedResult(resultEntries), calls |-> calls]
  ELSE
    LET m == materializeEntry(entries[i], genCtx) IN
    IF IsError(m.err) THEN
      [err |-> Wrap(Layer("failed to materialize entry for path", -1, entries[i].path),
                    m.err),
       result |-> NilResult, calls |-> calls \o m.calls]
    ELSE
      ContextLoop(entries, i + 1, resultEntries \o m.entries, calls \o m.calls, genCtx)

\* Context.Materialize
ContextMaterialize(contextMsg, genCtx) ==
  IF contextMsg.isNil THEN
    [err |-> Errorf("context cannot be nil"), result |-> NilResult, calls |-> <<>>]
  ELSE ContextLoop(contextMsg.entries, 1, <<>>, <<>>, genCtx)

(***************************************************************************)
(* The files the IDE plugins read.  A file is absent, holds text that is   *)
(* not JSON, or holds a JSON document.  A JSON object is a record holding  *)
(* exactly the keys present; a JSON array is a sequence.                   *)
(***************************************************************************)
ClaudeSettingsPath == ".claude/settings.local.json"
ClaudeMcpPath == ".mcp.json"
CursorMcpPath == ".cursor/mcp.json"

Paths == {ClaudeSettingsPath, ClaudeMcpPath, CursorMcpPath}

Absent == [kind |-> "absent"]

TextFile(text) == [kind |-> "text", text |-> text]

JsonFile(doc) == [kind |-> "json", json |-> doc]

\* ReadExisting as it would be if the existing file were never read.
ReadExistingNothing(files, path) == TextFile("")

\* os.ReadFile followed by string(data); an error leaves existingContent "".
ReadExisting(files, path) ==
  IF path \in DOMAIN files /\ files[path].kind # "absent" THEN files[path]
  ELSE TextFile("")

\* One key of a JSON object, written only when `present` (omitempty).
Obj(key, value, present) == IF present THEN key :> value ELSE <<>>

\* A Go slice: nil or not, and its elements.
NilSlice == [isNil |-> TRUE, elems |-> <<>>]

MakeSlice(elems) == [isNil |-> FALSE, elems |-> elems]

\* A MaterializedResult_Entry whose file content is a marshalled JSON document.
JsonEntry(path, doc) == [path |-> path, json |-> doc]

(***************************************************************************)
(* adcp.Ide: Commands, Permissions and Mcp, each optional.                 *)
(***************************************************************************)
NilIde == [isNil |-> TRUE]

NilCommands == [isNil |-> TRUE, entries |-> <<>>]

Commands(entries) == [isNil |-> FALSE, entries |-> entries]

Command(name, from) == [name |-> name, from |-> from]

NilPermissions == [isNil |-> TRUE, allow |-> <<>>, deny |-> <<>>]

Permissions(allow, deny) == [isNil |-> FALSE, allow |-> allow, deny |-> deny]

OperationPermission(type, arg) == [type |-> type, arg |-> arg]

NilMcp == [isNil |-> TRUE, servers |-> <<>>]

Mcp(servers) == [isNil |-> FALSE, servers |-> servers]

HttpMcpServer(url) == [type |-> "Http", url |-> url]

StdioMcpServer(command) == [type |-> "Stdio", command |-> command]

UnsetMcpServer == [type |-> "Unset"]

Ide(commands, permissions, mcp) ==
  [isNil |-> FALSE, commands |-> commands, permissions |-> permissions, mcp |-> mcp]

\* claude.formatPermission
formatPermission(p) ==
  CASE p.type = "Bash"  -> "Bash(" \o p.arg \o ")"
    [] p.type = "Read"  -> "Read(" \o p.arg \o ")"
    [] p.type = "Write" -> "Write(" \o p.arg \o ")"
    [] OTHER -> ""

\* The first loop of mergeUniqueStrings and its second: append what is unseen.
RECURSIVE AppendUnseen(_, _, _)
AppendUnseen(result, list, k) ==
  IF k > Len(list) THEN result
  ELSE IF \E j \in 1..Len(result) : result[j] = list[k]
       THEN AppendUnseen(result, list, k + 1)
       ELSE AppendUnseen(Append(result, list[k]), list, k + 1)

\* mergeUniqueStrings as it would be if the new items were added first.
mergeNewFirst(existing, new) ==
  AppendUnseen(AppendUnseen(<<>>, new, 1), existing, 1)

\* mergeUniqueStrings as it would be if the new items were appended unchecked.
mergeAppending(existing, new) ==
  AppendUnseen(<<>>, existing, 1) \o new

\* claude.mergeUniqueStrings
mergeUniqueStrings(existing, new) ==
  AppendUnseen(AppendUnseen(<<>>, existing, 1), new, 1)

\* FormatAll as it would be without the HasType check.
RECURSIVE FormatAllKeepUnset(_, _)
FormatAllKeepUnset(perms, k) ==
  IF k > Len(perms) THEN <<>>
  ELSE <<formatPermission(perms[k])>> \o FormatAllKeepUnset(perms, k + 1)

\* The permissions of a list that have a variant set, formatted, in order.
RECURSIVE FormatAll(_, _)
FormatAll(perms, k) ==
  IF k > Len(perms) THEN <<>>
  ELSE IF perms[k].type = "Unset" THEN FormatAll(perms, k + 1)
       ELSE <<formatPermission(perms[k])>> \o FormatAll(perms, k + 1)

\* fmt.Sprintf(format, name) over a list, skipping the empty names when asked.
RECURSIVE SprintfAll(_, _, _, _, _)
SprintfAll(prefix, names, suffix, skipEmpty, k) ==
  IF k > Len(names) THEN <<>>
  ELSE IF skipEmpty /\ names[k] = "" THEN SprintfAll(prefix, names, suffix, skipEmpty, k + 1)
       ELSE <<prefix \o names[k] \o suffix>>
            \o SprintfAll(prefix, names, suffix, skipEmpty, k + 1)

\* json.Unmarshal into claudeSettings: text that is not JSON is an error.
UnmarshalClaudeSettings(content) ==
  IF content.kind # "json" THEN
    [err |-> Errorf("invalid character"), s |-> <<>>]
  ELSE
    LET doc == content.json
        perms == IF "permissions" \in DOMAIN doc THEN doc.permissions ELSE <<>>
        list(obj, key) == IF key \in DOMAIN obj THEN MakeSlice(obj[key]) ELSE NilSlice
    IN  [err |-> NoError,
         s |-> [Allow |-> list(perms, "allow"),
                Deny |-> list(perms, "deny"),
                Ask |-> list(perms, "ask"),
                DefaultMode |-> IF "defaultMode" \in DOMAIN perms
                                THEN perms.defaultMode ELSE "",
                EnabledMcpjsonServers |-> list(doc, "enabledMcpjsonServers"),
                EnableAllProjectMcpServers |->
                  IF "enableAllProjectMcpServers" \in DOMAIN doc
                  THEN doc.enableAllProjectMcpServers ELSE FALSE]]

\* The zero value claudeSettings{}
ZeroClaudeSettings ==
  [Allow |-> NilSlice, Deny |-> NilSlice, Ask |-> NilSlice, DefaultMode |-> "",
   EnabledMcpjsonServers |-> NilSlice, EnableAllProjectMcpServers |-> FALSE]

\* json.MarshalIndent of claudeSettings: every field but permissions is omitempty.
MarshalClaudeSettings(s) ==
  [permissions |->
     Obj("allow", s.Allow.elems, Len(s.Allow.elems) > 0)
     @@ Obj("deny", s.Deny.elems, Len(s.Deny.elems) > 0)
     @@ Obj("ask", s.Ask.elems, Len(s.Ask.elems) > 0)
     @@ Obj("defaultMode", s.DefaultMode, s.DefaultMode # "")]
  @@ Obj("enabledMcpjsonServers", s.EnabledMcpjsonServers.elems,
         Len(s.EnabledMcpjsonServers.elems) > 0)
  @@ Obj("enableAllProjectMcpServers", TRUE, s.EnableAllProjectMcpServers)

\* claudeSettingsOf as it would be if the lists were rebuilt from the input alone.
claudeSettingsReplacing(perms, mcpServerNames, commandNames, existingContent) ==
  LET newAllow == (IF perms.isNil THEN <<>> ELSE FormatAll(perms.allow, 1))
                  \o SprintfAll("mcp__", mcpServerNames, "", FALSE, 1)
                  \o SprintfAll("SlashCommand(/", commandNames, ")", TRUE, 1)
      newDeny == IF perms.isNil THEN <<>> ELSE FormatAll(perms.deny, 1)
  IN  [Allow |-> MakeSlice(mergeUniqueStrings(<<>>, newAllow)),
       Deny |-> MakeSlice(mergeUniqueStrings(<<>>, newDeny)),
       Ask |-> MakeSlice(<<>>),
       DefaultMode |-> "acceptEdits",
       EnabledMcpjsonServers |-> MakeSlice(mergeUniqueStrings(<<>>, mcpServerNames)),
       EnableAllProjectMcpServers |-> TRUE]

\* claudeSettingsOf as it would be if the mode and the enable-all flag of the
\* existing file were kept.
claudeSettingsKeepingMode(perms, mcpServerNames, commandNames, existingContent) ==
  LET parsed == IF existingContent = TextFile("") THEN ZeroClaudeSettings
                ELSE LET u == UnmarshalClaudeSettings(existingContent) IN
                     IF IsError(u.err) THEN ZeroClaudeSettings ELSE u.s
      nonNil(sl) == IF sl.isNil THEN MakeSlice(<<>>) ELSE sl
      newAllow == (IF perms.isNil THEN <<>> ELSE FormatAll(perms.allow, 1))
                  \o SprintfAll("mcp__", mcpServerNames, "", FALSE, 1)
                  \o SprintfAll("SlashCommand(/", commandNames, ")", TRUE, 1)
      newDeny == IF perms.isNil THEN <<>> ELSE FormatAll(perms.deny, 1)
  IN  [Allow |-> MakeSlice(mergeUniqueStrings(nonNil(parsed.Allow).elems, newAllow)),
       Deny |-> MakeSlice(mergeUniqueStrings(nonNil(parsed.Deny).elems, newDeny)),
       Ask |-> nonNil(parsed.Ask),
       DefaultMode |-> IF parsed.DefaultMode = "" THEN "acceptEdits" ELSE parsed.DefaultMode,
       EnabledMcpjsonServers |->
         MakeSlice(mergeUniqueStrings(nonNil(parsed.EnabledMcpjsonServers).elems,
                                      mcpServerNames)),
       EnableAllProjectMcpServers |-> parsed.EnableAllProjectMcpServers]

\* The settings struct of buildClaudeSettingsJSON just before it is marshalled.
claudeSettingsOf(perms, mcpServerNames, commandNames, existingContent) ==
  LET parsed == IF existingContent = TextFile("") THEN ZeroClaudeSettings
                ELSE LET u == UnmarshalClaudeSettings(existingContent) IN
                     IF IsError(u.err) THEN ZeroClaudeSettings ELSE u.s
      nonNil(sl) == IF sl.isNil THEN MakeSlice(<<>>) ELSE sl
      newAllow == (IF perms.isNil THEN <<>> ELSE FormatAll(perms.allow, 1))
                  \o SprintfAll("mcp__", mcpServerNames, "", FALSE, 1)
                  \o SprintfAll("SlashCommand(/", commandNames, ")", TRUE, 1)
      newDeny == IF perms.isNil THEN <<>> ELSE FormatAll(perms.deny, 1)
  IN  [Allow |-> MakeSlice(mergeUniqueStrings(nonNil(parsed.Allow).elems, newAllow)),
       Deny |-> MakeSlice(mergeUniqueStrings(nonNil(parsed.Deny).elems, newDeny)),
       Ask |-> nonNil(parsed.Ask),
       DefaultMode |-> "acceptEdits",
       EnabledMcpjsonServers |->
         MakeSlice(mergeUniqueStrings(nonNil(parsed.EnabledMcpjsonServers).elems,
                                      mcpServerNames)),
       EnableAllProjectMcpServers |-> TRUE]

\* claude.buildClaudeSettingsJSON
buildClaudeSettingsJSON(perms, mcpServerNames, commandNames, existingContent) ==
  MarshalClaudeSettings(
    claudeSettingsOf(perms, mcpServerNames, commandNames, existingContent))

\* claude.materializePermissions, the Update of the Claude settings.
materializePermissions(perms, mcpServerNames, commandNames, files) ==
  <<JsonEntry(ClaudeSettingsPath,
              buildClaudeSettingsJSON(perms, mcpServerNames, commandNames,
                                      ReadExisting(files, ClaudeSettingsPath)))>>

(***************************************************************************)
(* shared.buildMcpJSON and shared.IDE.materializeMcp.                      *)
(***************************************************************************)
\* strings.Fields on the stdio commands of the model.
Fields(cmd) ==
  CASE cmd = "devplan mcp" -> <<"devplan", "mcp">>
    [] cmd = "npx -y srv"  -> <<"npx", "-y", "srv">>
    [] cmd = "uvx"         -> <<"uvx">>
    [] OTHER               -> <<>>

\* The zero value mcpServerConfig{}
ZeroMcpServerConfig ==
  [Type |-> "", Command |-> "", Args |-> <<>>, Env |-> <<>>, Url |-> ""]

\* json.Unmarshal of one server object into mcpServerConfig
UnmarshalMcpServerConfig(obj) ==
  [Type |-> IF "type" \in DOMAIN obj THEN obj.type ELSE "",
   Command |-> IF "command" \in DOMAIN obj THEN obj.command ELSE "",
   Args |-> IF "args" \in DOMAIN obj THEN obj.args ELSE <<>>,
   Env |-> IF "env" \in DOMAIN obj THEN obj.env ELSE <<>>,
   Url |-> IF "url" \in DOMAIN obj THEN obj.url ELSE ""]

\* MarshalMcpServerConfig as it would be if the command were written together
\* with its first argument.
MarshalMcpServerConfigJoined(srv) ==
  Obj("type", srv.Type, srv.Type # "")
  @@ Obj("command",
         IF Len(srv.Args) > 0 THEN srv.Command \o " " \o srv.Args[1] ELSE srv.Command,
         srv.Command # "")
  @@ Obj("args", srv.Args, Len(srv.Args) > 0)
  @@ Obj("env", srv.Env, DOMAIN srv.Env # {})
  @@ Obj("url", srv.Url, srv.Url # "")

\* json.Marshal of mcpServerConfig: every field is omitempty.
MarshalMcpServerConfig(srv) ==
  Obj("type", srv.Type, srv.Type # "")
  @@ Obj("command", srv.Command, srv.Command # "")
  @@ Obj("args", srv.Args, Len(srv.Args) > 0)
  @@ Obj("env", srv.Env, DOMAIN srv.Env # {})
  @@ Obj("url", srv.Url, srv.Url # "")

\* json.Unmarshal into mcpJson: the server map, empty when the text is not JSON.
UnmarshalMcpJson(content) ==
  IF content.kind # "json" THEN
    [err |-> Errorf("invalid character"), McpServers |-> <<>>]
  ELSE
    LET doc == content.json
        objs == IF "mcpServers" \in DOMAIN doc THEN doc.mcpServers ELSE <<>>
    IN  [err |-> NoError,
         McpServers |-> [n \in DOMAIN objs |-> UnmarshalMcpServerConfig(objs[n])]]

\* The mcpServerConfig buildMcpJSON derives from one server of the spec.
mcpServerConfigOf(s) ==
  CASE s.type = "Http" ->
         [ZeroMcpServerConfig EXCEPT !.Type = "http", !.Url = s.url]
    [] s.type = "Stdio" ->
         LET parts == IF s.command # "" THEN Fields(s.command) ELSE <<>> IN
         [ZeroMcpServerConfig EXCEPT
            !.Type = "stdio",
            !.Command = IF Len(parts) > 0 THEN parts[1] ELSE "",
            !.Args = IF Len(parts) > 1 THEN SubSeq(parts, 2, Len(parts)) ELSE <<>>]
    [] OTHER -> ZeroMcpServerConfig

\* Whether buildMcpJSON keeps the derived configuration of server s.
KeepsServer(s) ==
  /\ s.type \in {"Http", "Stdio"}
  /\ LET srv == mcpServerConfigOf(s) IN
     srv.Type # "" \/ srv.Url # "" \/ srv.Command # ""

\* buildMcpJSON as it would be if a server of the spec kept the env of the
\* existing entry of its name.
buildMcpJSONKeepingEnv(mcp, existingContent) ==
  IF mcp.isNil THEN
    [err |-> Errorf("mcp cannot be nil"), doc |-> <<>>]
  ELSE
    LET old == IF existingContent = TextFile("") THEN <<>>
               ELSE UnmarshalMcpJson(existingContent).McpServers
        kept == {n \in DOMAIN mcp.servers : KeepsServer(mcp.servers[n])}
        cm == [n \in (DOMAIN old) \cup kept |->
                 IF n \in kept
                 THEN IF n \in DOMAIN old
                      THEN [mcpServerConfigOf(mcp.servers[n]) EXCEPT !.Env = old[n].Env]
                      ELSE mcpServerConfigOf(mcp.servers[n])
                 ELSE old[n]]
    IN  [err |-> NoError,
         doc |-> [mcpServers |-> [n \in DOMAIN cm |-> MarshalMcpServerConfig(cm[n])]]]

\* buildMcpJSON as it would be if a parse error of the existing file were returned.
buildMcpJSONStrict(mcp, existingContent) ==
  IF mcp.isNil THEN
    [err |-> Errorf("mcp cannot be nil"), doc |-> <<>>]
  ELSE IF existingContent # TextFile("") /\ IsError(UnmarshalMcpJson(existingContent).err) THEN
    [err |-> Wrap(Layer("failed to parse existing mcp json", -1, ""),
                  UnmarshalMcpJson(existingContent).err),
     doc |-> <<>>]
  ELSE
    LET old == IF existingContent = TextFile("") THEN <<>>
               ELSE UnmarshalMcpJson(existingContent).McpServers
        kept == {n \in DOMAIN mcp.servers : KeepsServer(mcp.servers[n])}
        cm == [n \in (DOMAIN old) \cup kept |->
                 IF n \in kept THEN mcpServerConfigOf(mcp.servers[n]) ELSE old[n]]
    IN  [err |-> NoError,
         doc |-> [mcpServers |-> [n \in DOMAIN cm |-> MarshalMcpServerConfig(cm[n])]]]

\* shared.buildMcpJSON
buildMcpJSON(mcp, existingContent) ==
  IF mcp.isNil THEN
    [err |-> Errorf("mcp cannot be nil"), doc |-> <<>>]
  ELSE
    LET old == IF existingContent = TextFile("") THEN <<>>
               ELSE UnmarshalMcpJson(existingContent).McpServers
        kept == {n \in DOMAIN mcp.servers : KeepsServer(mcp.servers[n])}
        cm == [n \in (DOMAIN old) \cup kept |->
                 IF n \in kept THEN mcpServerConfigOf(mcp.servers[n]) ELSE old[n]]
    IN  [err |-> NoError,
         doc |-> [mcpServers |-> [n \in DOMAIN cm |-> MarshalMcpServerConfig(cm[n])]]]

\* shared.IDE.materializeMcp
materializeMcp(i, mcp, files) ==
  IF mcp.isNil \/ i.MCPServersJSONPath = "" THEN
    [err |-> NoError, entries |-> <<>>]
  ELSE
    LET b == buildMcpJSON(mcp, ReadExisting(files, i.MCPServersJSONPath)) IN
    IF IsError(b.err) THEN [err |-> b.err, entries |-> <<>>]
    ELSE [err |-> NoError, entries |-> <<JsonEntry(i.MCPServersJSONPath, b.doc)>>]

(***************************************************************************)
(* shared.IDE: fetchCommandContent, materializeCommands, Materialize, and  *)
(* the two providers built by claude.NewIDEProvider and                    *)
(* cursorcli.NewIDEProvider.                                               *)
(***************************************************************************)
ClaudeIDE ==
  [CommandsFolder |-> ".claude/commands", MCPServersJSONPath |-> ClaudeMcpPath,
   Settings |-> "claude"]

CursorIDE ==
  [CommandsFolder |-> ".cursor/commands", MCPServersJSONPath |-> CursorMcpPath,
   Settings |-> "cursor-cli"]

\* fetchCommandContent as it would be if a source with no type gave no content.
fetchCommandContentLenient(from) ==
  CASE from.type \in {"nil", "Unset"} ->
         [err |-> NoError, val |-> "", calls |-> <<>>]
    [] from.type = "Text" ->
         [err |-> NoError, val |-> from.text, calls |-> <<>>]
    [] from.type = "Cmd" -> ExecuteCommand(from.cmd)
    [] from.type = "Github" -> FetchGithub(from.github)
    [] OTHER ->
         [err |-> Errorf("unknown or unset command source type"), val |-> "", calls |-> <<>>]

\* shared.IDE.fetchCommandContent
fetchCommandContent(from) ==
  CASE from.type \in {"nil", "Unset"} ->
         [err |-> Errorf("command 'from' source cannot be nil"), val |-> "", calls |-> <<>>]
    [] from.type = "Text" ->
         [err |-> NoError, val |-> from.text, calls |-> <<>>]
    [] from.type = "Cmd" -> ExecuteCommand(from.cmd)
    [] from.type = "Github" -> FetchGithub(from.github)
    [] OTHER ->
         [err |-> Errorf("unknown or unset command source type"), val |-> "", calls |-> <<>>]

\* CommandsLoop as it would be if a failure returned the entries made so far.
RECURSIVE CommandsLoopPartial(_, _, _, _, _)
CommandsLoopPartial(i, cmds, k, entries, calls) ==
  IF k > Len(cmds) THEN
    [err |-> NoError, entries |-> entries, calls |-> calls]
  ELSE IF cmds[k].name = "" THEN
    [err |-> Errorf("command name cannot be empty"), entries |-> entries, calls |-> calls]
  ELSE IF cmds[k].from.type = "nil" THEN
    [err |-> <<Layer("command must have a 'from' source", -1, cmds[k].name)>>,
     entries |-> entries, calls |-> calls]
  ELSE
    LET c == fetchCommandContent(cmds[k].from) IN
    IF IsError(c.err) THEN
      [err |-> Wrap(Layer("failed to materialize command", -1, cmds[k].name), c.err),
       entries |-> entries, calls |-> calls \o c.calls]
    ELSE
      CommandsLoopPartial(i, cmds, k + 1,
                          Append(entries,
                                 FileEntry(i.CommandsFolder \o "/" \o cmds[k].name \o ".md", c.val)),
                          calls \o c.calls)

\* The loop of materializeCommands from command k (1-based).
RECURSIVE CommandsLoop(_, _, _, _, _)
CommandsLoop(i, cmds, k, entries, calls) ==
  IF k > Len(cmds) THEN
    [err |-> NoError, entries |-> entries, calls |-> calls]
  ELSE IF cmds[k].name = "" THEN
    [err |-> Errorf("command name cannot be empty"), entries |-> <<>>, calls |-> calls]
  ELSE IF cmds[k].from.type = "nil" THEN
    [err |-> <<Layer("command must have a 'from' source", -1, cmds[k].name)>>,
     entries |-> <<>>, calls |-> calls]
  ELSE
    LET c == fetchCommandContent(cmds[k].from) IN
    IF IsError(c.err) THEN
      [err |-> Wrap(Layer("failed to materialize command", -1, cmds[k].name), c.err),
       entries |-> <<>>, calls |-> calls \o c.calls]
    ELSE
      CommandsLoop(i, cmds, k + 1,
                   Append(entries,
                          FileEntry(i.CommandsFolder \o "/" \o cmds[k].name \o ".md", c.val)),
                   calls \o c.calls)

\* shared.IDE.materializeCommands
materializeCommands(i, commands) ==
  IF commands.isNil THEN [err |-> NoError, entries |-> <<>>, calls |-> <<>>]
  ELSE CommandsLoop(i, commands.entries, 1, <<>>, <<>>)

\* The names of the commands that have one, in order (IDE.Materialize).
RECURSIVE CommandNames(_, _)
CommandNames(cmds, k) ==
  IF k > Len(cmds) THEN <<>>
  ELSE IF cmds[k].name = "" THEN CommandNames(cmds, k + 1)
       ELSE <<cmds[k].name>> \o CommandNames(cmds, k + 1)

\* The orders in which `for name := range servers` may visit the map's keys.
RangeOrders(servers) ==
  LET names == DOMAIN servers
      n == Cardinality(names)
  IN  {o \in [1..n -> names] : \A a, b \in 1..n : o[a] = o[b] => a = b}

\* IDESettings.Update of the provider's settings
SettingsUpdate(i, perms, mcpServerNames, commandNames, files) ==
  IF i.Settings = "claude"
  THEN materializePermissions(perms, mcpServerNames, commandNames, files)
  ELSE <<>>

\* shared.IDE.Materialize, the map being ranged over in the order mcpServerNames.
IDEMaterialize(i, ide, files, mcpServerNames) ==
  IF ide.isNil THEN
    [err |-> Errorf("ide cannot be nil"), result |-> NilResult, calls |-> <<>>]
  ELSE
    LET c == materializeCommands(i, ide.commands) IN
    IF IsError(c.err) THEN [err |-> c.err, result |-> NilResult, calls |-> c.calls]
    ELSE
      LET commandNames == CommandNames(ide.commands.entries, 1)
          settingEntries ==
            SettingsUpdate(i, ide.permissions, mcpServerNames, commandNames, files)
          m == materializeMcp(i, ide.mcp, files)
      IN  IF IsError(m.err) THEN [err |-> m.err, result |-> NilResult, calls |-> c.calls]
          ELSE [err |-> NoError,
                result |-> MaterializedResult(c.entries \o settingEntries \o m.entries),
                calls |-> c.calls]

(***************************************************************************)
(* adcp.Recipe and the value Recipe.Materialize returns.                   *)
(***************************************************************************)
NilRecipe == [isNil |-> TRUE]

Recipe(prefetch, context, ide) ==
  [isNil |-> FALSE, prefetch |-> prefetch, context |-> context, ide |-> ide]

Return(result, err) == [result |-> result, err |-> err]

NoReturn == [result |-> NilResult, err |-> NoError]

\* AppendEntries as it would be with the arguments of append swapped.
PrependEntries(resultEntries, more) == more \o resultEntries

\* resultEntries = append(resultEntries, more...)
AppendEntries(resultEntries, more) == resultEntries \o more

(***************************************************************************)
(* executable.Recipe: the entry point's IDE type selects the provider.     *)
(***************************************************************************)
\* strings.ToLower on the identifiers of the model.
ToLower(str) ==
  CASE str = "Claude"     -> "claude"
    [] str = "CLAUDE"     -> "claude"
    [] str = "Cursor-CLI" -> "cursor-cli"
    [] str = "Cursor"     -> "cursor"
    [] OTHER              -> str

\* The nil IDEProvider getIDE returns with an error.
NilIDEProvider == [CommandsFolder |-> "", MCPServersJSONPath |-> "", Settings |-> "nil"]

\* getIDE as it would be if the identifier were compared as given.
getIDECaseSensitive(ideType) ==
  CASE ideType = "claude"     -> [err |-> NoError, ide |-> ClaudeIDE]
    [] ideType = "cursor-cli" -> [err |-> NoError, ide |-> CursorIDE]
    [] OTHER -> [err |-> <<Layer("unsupported IDE type", -1, ideType)>>,
                 ide |-> NilIDEProvider]

\* executable.getIDE; on an error the provider returned is nil and never used.
getIDE(ideType) ==
  CASE ToLower(ideType) = "claude"     -> [err |-> NoError, ide |-> ClaudeIDE]
    [] ToLower(ideType) = "cursor-cli" -> [err |-> NoError, ide |-> CursorIDE]
    [] OTHER -> [err |-> <<Layer("unsupported IDE type", -1, ideType)>>,
                 ide |-> NilIDEProvider]

NilEntryPoint == [isNil |-> TRUE, ideType |-> ""]

EntryPoint(ideType) == [isNil |-> FALSE, ideType |-> ideType]

\* r.recipe.GetEntryPoint().GetIdeType(): "" when there is no entry point.
GetIdeType(entryPoint) == IF entryPoint.isNil THEN "" ELSE entryPoint.ideType

ExecutableRecipe(entryPoint, recipe) ==
  [isNil |-> FALSE, entryPoint |-> entryPoint, recipe |-> recipe]

\* No executable recipe: recipes.Recipe.Materialize was called directly.
NoExecutable == [isNil |-> TRUE]

(***************************************************************************)
(* A working directory between two calls: the entries of a result written  *)
(* to their paths, as the persistence collaborator does.                   *)
(***************************************************************************)
\* The MCP servers of an Ide section; none when the section is nil.
ServersOf(ide) == IF ide.isNil THEN <<>> ELSE ide.mcp.servers

\* The document of the last entry written to path, if any entry is.
WrittenTo(entries, path) ==
  LET ks == {k \in 1..Len(entries) : entries[k].path = path /\ "json" \in DOMAIN entries[k]}
  IN  IF ks = {} THEN [written |-> FALSE, doc |-> <<>>]
      ELSE [written |-> TRUE,
            doc |-> entries[CHOOSE k \in ks : \A j \in ks : j <= k].json]

\* Each entry's content written to its path, overwriting what was there.
WriteEntries(files, entries) ==
  [p \in DOMAIN files |->
     IF WrittenTo(entries, p).written THEN JsonFile(WrittenTo(entries, p).doc)
     ELSE files[p]]

\* The four string lists of a settings document, as sets.
ListsOf(doc) ==
  LET perms == IF "permissions" \in DOMAIN doc THEN doc.permissions ELSE <<>>
      set(obj, key) == IF key \in DOMAIN obj
                       THEN {obj[key][k] : k \in 1..Len(obj[key])} ELSE {}
  IN  [allow |-> set(perms, "allow"), deny |-> set(perms, "deny"),
       ask |-> set(perms, "ask"), enabled |-> set(doc, "enabledMcpjsonServers")]

NoLists == [allow |-> {}, deny |-> {}, ask |-> {}, enabled |-> {}]

\* The lists of the settings file of a directory; none unless it is a document.
FileLists(files) ==
  IF files[ClaudeSettingsPath].kind = "json" THEN ListsOf(files[ClaudeSettingsPath].json)
  ELSE NoLists

\* The lists of the settings entry of a result; none when it has no such entry.
ResultLists(result) ==
  IF WrittenTo(result.entries, ClaudeSettingsPath).written
  THEN ListsOf(WrittenTo(result.entries, ClaudeSettingsPath).doc)
  ELSE NoLists

JoinLists(a, b) ==
  [allow |-> a.allow \cup b.allow, deny |-> a.deny \cup b.deny,
   ask |-> a.ask \cup b.ask, enabled |-> a.enabled \cup b.enabled]

(***************************************************************************)
(* The inputs.                                                             *)
(***************************************************************************)
SeqsUpTo(S, n) == UNION {[1..k -> S] : k \in 0..n}

Texts == {"a", "b"}

Cmds == {"", "exit 1", "echo c"}

GitPaths == {"", RawOk, RawMissing, BlobOk, TreeOnly}

Ids == {"k1", "k2"}

Items ==
  {TextFrom(t) : t \in Texts} \cup {CmdFrom(c) : c \in Cmds}
  \cup {GithubFrom(g) : g \in GitPaths} \cup {PrefetchIdFrom(k) : k \in Ids}
  \cup {UnsetFrom, NilFrom}

Froms ==
  Items \cup {CombinedFrom(items) : items \in SeqsUpTo(Items, MaxItems)}

GenCtxs ==
  {NilGenCtx,
   GenerationContext(NilMap),
   GenerationContext(MapSet(MakeMap, "k1", FetchedData("k1", "x"))),
   GenerationContext(MapSet(MapSet(MakeMap, "k1", FetchedData("k1", "z")),
                            "k2", FetchedData("k2", "y")))}

ContextEntries ==
  {ContextEntry("p", TextFrom("a")),
   ContextEntry("p", TextFrom("b")),
   ContextEntry("q", CmdFrom("echo c")),
   ContextEntry("", TextFrom("a")),
   ContextEntry("q", NilFrom),
   ContextEntry("q", UnsetFrom),
   ContextEntry("q", CmdFrom("exit 1")),
   ContextEntry("r", PrefetchIdFrom("k1")),
   ContextEntry("r", CombinedFrom(<<TextFrom("a"), PrefetchIdFrom("k2")>>)),
   ContextEntry("q", GithubFrom(RawMissing))}

Contexts ==
  {NilContext} \cup {Context(es) : es \in SeqsUpTo(ContextEntries, MaxEntries)}

PrefetchEntries ==
  {NilPfEntry, UnsetPfEntry, CmdPfEntry(""), CmdPfEntry("exit 1"), CmdPfEntry("echo c"),
   CmdPfEntry("cat pf1.json"), CmdPfEntry("cat pf2.json"), CmdPfEntry("cat pf3.json"),
   CmdPfEntry("cat pf4.json")}

Prefetches ==
  {NilPrefetch} \cup {Prefetch(es) : es \in SeqsUpTo(PrefetchEntries, MaxPrefetch)}

\* The recipes handed to Recipe.Materialize.
RecipePrefetchEntries ==
  {CmdPfEntry("cat pf1.json"), CmdPfEntry("cat pf2.json"), CmdPfEntry("exit 1")}

RecipeContextEntries ==
  {ContextEntry("p", TextFrom("a")),
   ContextEntry("r", PrefetchIdFrom("k1")),
   ContextEntry("r", CombinedFrom(<<TextFrom("b"), PrefetchIdFrom("k2")>>)),
   ContextEntry("q", CmdFrom("exit 1"))}

FullIde ==
  Ide(Commands(<<Command("fmt", TextFrom("a"))>>),
      Permissions(<<OperationPermission("Bash", "git status:*")>>,
                  <<OperationPermission("Read", ".env")>>),
      Mcp([n \in {"github", "devplan"} |->
             IF n = "github" THEN HttpMcpServer("https://api.githubcopilot.com/mcp/")
             ELSE StdioMcpServer("devplan mcp")]))

\* The Recipe objects (their IDE provider) with the Ide section handed to them.
RecipeIdes ==
  {<<ClaudeIDE, NilIde>>,
   <<ClaudeIDE, Ide(Commands(<<Command("fmt", CmdFrom("echo c"))>>), NilPermissions, NilMcp)>>,
   <<ClaudeIDE, Ide(Commands(<<Command("fmt", TextFrom("a")), Command("bad", CmdFrom("exit 1"))>>),
                   NilPermissions, NilMcp)>>,
   <<ClaudeIDE, FullIde>>,
   <<CursorIDE, FullIde>>}

Recipes ==
  {NilRecipe}
  \cup {Recipe(pf, ctx, NilIde) :
          pf \in {NilPrefetch} \cup {Prefetch(es) : es \in SeqsUpTo(RecipePrefetchEntries, MaxPrefetch)},
          ctx \in {NilContext} \cup {Context(es) : es \in SeqsUpTo(RecipeContextEntries, MaxEntries)}}

ExistingSettings ==
  JsonFile([permissions |-> [allow |-> <<"Bash(git status:*)", "mcp__github">>,
                             ask |-> <<"Write(*)">>],
            enabledMcpjsonServers |-> <<"old">>])

ExistingMcp ==
  JsonFile([mcpServers |->
              [n \in {"old", "devplan"} |->
                 IF n = "old" THEN [type |-> "http", url |-> "https://old.example/mcp"]
                 ELSE [type |-> "stdio", command |-> "devplan", args |-> <<"serve">>,
                       env |-> [TOKEN |-> "t"]]]])

InitialFiles ==
  {[p \in Paths |-> Absent],
   [p \in Paths |-> IF p = ClaudeSettingsPath THEN ExistingSettings ELSE ExistingMcp]}

\* The identifiers handed to getIDE and the executable recipes.
IdeTypes == {"claude", "Claude", "CLAUDE", "cursor-cli", "Cursor-CLI", "Cursor", "vscode", ""}

ExecutableRecipes ==
  {ExecutableRecipe(ep, r) :
     ep \in {NilEntryPoint} \cup {EntryPoint(t) : t \in IdeTypes},
     r \in {NilRecipe,
            Recipe(NilPrefetch, NilContext, NilIde),
            Recipe(Prefetch(<<CmdPfEntry("cat pf1.json")>>),
                   Context(<<ContextEntry("r", PrefetchIdFrom("k1")),
                             ContextEntry("q", CmdFrom("echo c"))>>),
                   NilIde),
            Recipe(NilPrefetch, NilContext,
                   Ide(Commands(<<Command("fmt", CmdFrom("echo c"))>>),
                       NilPermissions, NilMcp)),
            Recipe(Prefetch(<<CmdPfEntry("cat pf1.json"), CmdPfEntry("cat pf2.json")>>),
                   Context(<<ContextEntry("r", CombinedFrom(<<CmdFrom("echo c"),
                                                              GithubFrom(RawOk),
                                                              PrefetchIdFrom("k2")>>)),
                             ContextEntry("q", GithubFrom(BlobOk)),
                             ContextEntry("p", CmdFrom("echo c"))>>),
                   Ide(Commands(<<Command("doc", GithubFrom(RawOk)),
                                  Command("run", CmdFrom("echo c"))>>),
                       NilPermissions, NilMcp)),
            Recipe(Prefetch(<<CmdPfEntry("cat pf1.json")>>),
                   Context(<<ContextEntry("q", CmdFrom("echo c")),
                             ContextEntry("r", CombinedFrom(<<CmdFrom("echo c"),
                                                              GithubFrom(RawMissing),
                                                              CmdFrom("echo c")>>)),
                             ContextEntry("p", CmdFrom("echo c"))>>),
                   Ide(Commands(<<Command("run", CmdFrom("echo c"))>>),
                       NilPermissions, NilMcp))}}

\* The string lists handed to mergeUniqueStrings.
Strings == {"s1", "s2", "s3"}

StringLists == SeqsUpTo(Strings, MaxStrings)

\* The Ide sections handed to IDE.Materialize directly.
UnsetPermission == OperationPermission("Unset", "")

UnitPermissions ==
  {NilPermissions,
   Permissions(<<OperationPermission("Bash", "git status:*"), UnsetPermission>>,
               <<OperationPermission("Read", ".env")>>),
   Permissions(<<OperationPermission("Write", "*"), OperationPermission("Read", "go.mod")>>,
               <<UnsetPermission>>)}

UnitCommands ==
  {NilCommands,
   Commands(<<Command("fmt", TextFrom("a"))>>),
   Commands(<<Command("fmt", TextFrom("a")), Command("run", CmdFrom("echo c"))>>),
   Commands(<<Command("fmt", UnsetFrom)>>)}

GithubAndDevplan ==
  Mcp([n \in {"github", "devplan"} |->
         IF n = "github" THEN HttpMcpServer("https://api.githubcopilot.com/mcp/")
         ELSE StdioMcpServer("devplan mcp")])

DevplanAndUnset ==
  Mcp([n \in {"devplan", "x"} |->
         IF n = "devplan" THEN StdioMcpServer("uvx") ELSE UnsetMcpServer])

UnitMcps == {NilMcp, Mcp(<<>>), GithubAndDevplan, DevplanAndUnset}

UnitIdes ==
  {NilIde} \cup {Ide(c, p, m) : c \in UnitCommands, p \in UnitPermissions, m \in UnitMcps}

\* The Ide sections of the calls that follow the first in the same directory.
RerunIdes ==
  {Ide(NilCommands, NilPermissions, NilMcp),
   Ide(Commands(<<Command("fmt", TextFrom("a"))>>),
       Permissions(<<OperationPermission("Bash", "git status:*"), UnsetPermission>>,
                   <<OperationPermission("Read", ".env")>>),
       GithubAndDevplan),
   Ide(NilCommands,
       Permissions(<<OperationPermission("Write", "*"), OperationPermission("Read", "go.mod")>>,
                   <<UnsetPermission>>),
       DevplanAndUnset)}

\* The commands handed to materializeCommands directly.
CommandEntries ==
  {Command("fmt", TextFrom("a")),
   Command("run", CmdFrom("echo c")),
   Command("doc", GithubFrom(RawOk)),
   Command("", TextFrom("a")),
   Command("nofrom", NilFrom),
   Command("unset", UnsetFrom),
   Command("bad", CmdFrom("exit 1")),
   Command("gone", GithubFrom(RawMissing))}

\* The Ide sections of two runs that share a working directory.
RaceIdes ==
  {Ide(NilCommands,
       Permissions(<<OperationPermission("Bash", "git status:*")>>,
                   <<OperationPermission("Read", ".env")>>),
       GithubAndDevplan),
   Ide(NilCommands,
       Permissions(<<OperationPermission("Write", "*")>>, <<>>),
       DevplanAndUnset)}

\* The paths and versions handed to ConvertToRawURL directly: github.com
\* paths of one to MaxSegments segments, and one path for each other scheme
\* and host.
Segments == {"x", "blob", "tree"}

GitVersions ==
  {NilVersion, GitVersion("Unset", ""), GitVersion("Tag", "v1"), GitVersion("Commit", "abc")}

GithubPaths ==
  {GithubPath("https://", "github.com", segs) :
     segs \in SeqsUpTo(Segments, MaxSegments) \ {<<>>}}
  \cup {GithubPath(scheme, host, <<"org", "repo", "blob", "main", "f.md">>) :
          scheme \in {"https://", "http://", ""},
          host \in {"github.com", "www.github.com", "raw.githubusercontent.com",
                    "example.com"}}

\* The working directories of the direct calls: no file, well-formed files,
\* files that are not JSON, and well-formed files with empty fields.
Malformed == TextFile("{not json")

SparseSettings ==
  JsonFile([permissions |-> [deny |-> <<"Read(.env)", "Read(.env)">>,
                             defaultMode |-> "plan"],
            enableAllProjectMcpServers |-> FALSE])

SparseMcp ==
  JsonFile([mcpServers |->
              [n \in {"bare"} |-> [type |-> "stdio", command |-> "uvx",
                                   args |-> <<>>, env |-> <<>>]]])

UnitFiles ==
  {[p \in Paths |-> Absent],
   [p \in Paths |-> IF p = ClaudeSettingsPath THEN ExistingSettings ELSE ExistingMcp],
   [p \in Paths |-> Malformed],
   [p \in Paths |-> IF p = ClaudeSettingsPath THEN SparseSettings ELSE SparseMcp]}

(***************************************************************************)
(* The state.                                                              *)
(*   fs             the files of the working directory                     *)
(*   pc             where Recipe.Materialize stands: idle, prefetch,       *)
(*                  context, ide, done; or unit, while the result of a     *)
(*                  direct call of a component is held                     *)
(*   self           the Recipe object: its IDE provider                    *)
(*   executable     the executable recipe the Recipe object was built for  *)
(*   recipe         the recipe being materialized                          *)
(*   genCtx         the GenerationContext Recipe.Materialize created last  *)
(*   prior          the GenerationContext the call before this one left   *)
(*   resultEntries  the entries collected so far                           *)
(*   ideRet         what the IDE provider returned                         *)
(*   ret            what Recipe.Materialize returns                        *)
(*   calls          the shell commands run and URLs fetched so far         *)
(*   unit           a direct call of a component: its input and its return *)
(***************************************************************************)
VARIABLES fs, pc, self, executable, recipe, genCtx, prior, resultEntries, ideRet, ret,
          calls, unit

vars ==
  <<fs, pc, self, executable, recipe, genCtx, prior, resultEntries, ideRet, ret, calls, unit>>

NoUnit == [op |-> "none"]

\* FreshGenerationContext as it would be if the context outlived the call.
StaleGenerationContext == genCtx

\* genCtx := &core.GenerationContext{}
FreshGenerationContext == GenerationContext(NilMap)

NoIdeRet == [err |-> NoError, result |-> NilResult, calls |-> <<>>]

Init ==
  /\ fs \in InitialFiles
  /\ pc = "idle"
  /\ self = ClaudeIDE
  /\ executable = NoExecutable
  /\ recipe = NilRecipe
  /\ genCtx = NilGenCtx
  /\ prior = NilGenCtx
  /\ resultEntries = <<>>
  /\ ideRet = NoIdeRet
  /\ ret = NoReturn
  /\ calls = <<>>
  /\ unit = NoUnit

\* Recipe.Materialize is called: the nil check and the fresh generation context.
MaterializeStart ==
  /\ pc = "idle"
  /\ \E r \in Recipes, pi \in RecipeIdes :
       /\ self' = pi[1]
       /\ executable' = NoExecutable
       /\ recipe' = IF r.isNil THEN r ELSE [r EXCEPT !.ide = pi[2]]
       /\ IF r.isNil
          THEN /\ ret' = Return(NilResult, Errorf("recipe cannot be nil"))
               /\ pc' = "done"
               /\ genCtx' = genCtx
          ELSE /\ ret' = NoReturn
               /\ pc' = "prefetch"
               /\ genCtx' = FreshGenerationContext
  /\ prior' = genCtx
  /\ resultEntries' = <<>>
  /\ ideRet' = NoIdeRet
  /\ calls' = <<>>
  /\ UNCHANGED <<fs, unit>>

\* if pf := recipe.GetPrefetch(); pf != nil { ... }
MaterializePrefetch ==
  /\ pc = "prefetch"
  /\ IF recipe.prefetch.isNil
     THEN /\ pc' = "context"
          /\ UNCHANGED <<genCtx, ret, calls>>
     ELSE LET p == Process(recipe.prefetch) IN
          /\ calls' = calls \o p.calls
          /\ IF IsError(p.err)
             THEN /\ ret' = Return(NilResult,
                                   Wrap(Layer("failed to process prefetch", -1, ""), p.err))
                  /\ pc' = "done"
                  /\ genCtx' = genCtx
             ELSE /\ genCtx' = [genCtx EXCEPT !.Prefetched = p.map]
                  /\ pc' = "context"
                  /\ ret' = ret
  /\ UNCHANGED <<fs, self, executable, recipe, prior, resultEntries, ideRet, unit>>

\* if recipe.HasContext() { ... }
MaterializeContext ==
  /\ pc = "context"
  /\ IF recipe.context.isNil
     THEN /\ pc' = "ide"
          /\ UNCHANGED <<resultEntries, ret, calls>>
     ELSE LET c == ContextMaterialize(recipe.context, genCtx) IN
          /\ calls' = calls \o c.calls
          /\ IF IsError(c.err)
             THEN /\ ret' = Return(NilResult,
                                   Wrap(Layer("failed to materialize context", -1, ""), c.err))
                  /\ pc' = "done"
                  /\ resultEntries' = resultEntries
             ELSE /\ resultEntries' = AppendEntries(resultEntries, c.result.entries)
                  /\ pc' = "ide"
                  /\ ret' = ret
  /\ UNCHANGED <<fs, self, executable, recipe, genCtx, prior, ideRet, unit>>

\* if recipe.HasIde() { ... } and the return of the result
MaterializeIde ==
  /\ pc = "ide"
  /\ IF recipe.ide.isNil
     THEN /\ ret' = Return(MaterializedResult(resultEntries), NoError)
          /\ UNCHANGED <<resultEntries, ideRet, calls>>
     ELSE \E order \in RangeOrders(recipe.ide.mcp.servers) :
            LET r == IDEMaterialize(self, recipe.ide, fs, order) IN
            /\ ideRet' = r
            /\ calls' = calls \o r.calls
            /\ IF IsError(r.err)
               THEN /\ ret' = Return(NilResult,
                                     Wrap(Layer("failed to materialize IDE configuration", -1, ""),
                                          r.err))
                    /\ resultEntries' = resultEntries
               ELSE /\ resultEntries' = AppendEntries(resultEntries, r.result.entries)
                    /\ ret' = Return(MaterializedResult(resultEntries'), NoError)
  /\ pc' = "done"
  /\ UNCHANGED <<fs, self, executable, recipe, genCtx, prior, unit>>

\* The caller has taken the return value; the locals of the call are gone.
MaterializeReturn ==
  /\ pc = "done"
  /\ pc' = "idle"
  /\ recipe' = NilRecipe
  /\ self' = ClaudeIDE
  /\ executable' = NoExecutable
  /\ resultEntries' = <<>>
  /\ ideRet' = NoIdeRet
  /\ ret' = NoReturn
  /\ calls' = <<>>
  /\ prior' = NilGenCtx
  /\ UNCHANGED <<fs, genCtx, unit>>

\* A direct call of Processor.Process
CallProcess ==
  /\ pc = "idle"
  /\ \E pf \in Prefetches :
       unit' = [op |-> "Process", prefetch |-> pf, ret |-> Process(pf)]
  /\ pc' = "unit"
  /\ UNCHANGED <<fs, self, executable, recipe, genCtx, prior, resultEntries, ideRet, ret, calls>>

\* A direct call of Context.Materialize
CallContextMaterialize ==
  /\ pc = "idle"
  /\ \E ctx \in Contexts, gc \in GenCtxs :
       unit' = [op |-> "Context.Materialize", context |-> ctx, genCtx |-> gc,
                ret |-> ContextMaterialize(ctx, gc)]
  /\ pc' = "unit"
  /\ UNCHANGED <<fs, self, executable, recipe, genCtx, prior, resultEntries, ideRet, ret, calls>>

\* A direct call of Context.fetchContent
CallFetchContent ==
  /\ pc = "idle"
  /\ \E from \in Froms, gc \in GenCtxs :
       unit' = [op |-> "fetchContent", from |-> from, genCtx |-> gc,
                ret |-> fetchContent(from, gc)]
  /\ pc' = "unit"
  /\ UNCHANGED <<fs, self, executable, recipe, genCtx, prior, resultEntries, ideRet, ret, calls>>

\* The direct call has returned to its caller.
UnitReturn ==
  /\ pc = "unit"
  /\ pc' = "idle"
  /\ unit' = NoUnit
  /\ UNCHANGED <<fs, self, executable, recipe, genCtx, prior, resultEntries, ideRet, ret, calls>>

\* executable.Recipe.Materialize: getIDE, then the start of Recipe.Materialize
\* on the provider it returned.
ExecutableMaterialize ==
  /\ pc = "idle"
  /\ \E x \in ExecutableRecipes :
       LET g == getIDE(GetIdeType(x.entryPoint)) IN
       /\ executable' = x
       /\ IF IsError(g.err)
          THEN /\ ret' = Return(NilResult, Wrap(Layer("failed to get IDE", -1, ""), g.err))
               /\ pc' = "done"
               /\ UNCHANGED <<self, recipe, genCtx>>
          ELSE /\ self' = g.ide
               /\ recipe' = x.recipe
               /\ IF x.recipe.isNil
                  THEN /\ ret' = Return(NilResult, Errorf("recipe cannot be nil"))
                       /\ pc' = "done"
                       /\ genCtx' = genCtx
                  ELSE /\ ret' = NoReturn
                       /\ pc' = "prefetch"
                       /\ genCtx' = FreshGenerationContext
  /\ prior' = genCtx
  /\ resultEntries' = <<>>
  /\ ideRet' = NoIdeRet
  /\ calls' = <<>>
  /\ UNCHANGED <<fs, unit>>

\* A direct call of mergeUniqueStrings
CallMergeUniqueStrings ==
  /\ pc = "idle"
  /\ \E existing \in StringLists, new \in StringLists :
       unit' = [op |-> "mergeUniqueStrings", existing |-> existing, new |-> new,
                ret |-> mergeUniqueStrings(existing, new)]
  /\ pc' = "unit"
  /\ UNCHANGED <<fs, self, executable, recipe, genCtx, prior, resultEntries, ideRet, ret, calls>>

\* A direct call of a provider's Materialize in a working directory of its own.
CallIDEMaterialize ==
  /\ pc = "idle"
  /\ \E i \in {ClaudeIDE, CursorIDE}, ide \in UnitIdes, files \in UnitFiles :
       \E order \in RangeOrders(ServersOf(ide)) :
         LET r == IDEMaterialize(i, ide, files, order) IN
         unit' = [op |-> "IDE.Materialize", self |-> i, ide |-> ide, files |-> files,
                  order |-> order, ret |-> r, run |-> 1, again |-> FALSE,
                  ever |-> JoinLists(FileLists(files), ResultLists(r.result))]
  /\ pc' = "unit"
  /\ UNCHANGED <<fs, self, executable, recipe, genCtx, prior, resultEntries, ideRet, ret, calls>>

\* The result of the direct call is written to the directory and the provider's
\* Materialize is called there again, with the same Ide section or another.
MaterializeAgain ==
  /\ pc = "unit"
  /\ unit.op = "IDE.Materialize"
  /\ ~IsError(unit.ret.err)
  /\ unit.run < MaxRuns
  /\ \E ide \in RerunIdes \cup {unit.ide} :
       \E order \in RangeOrders(ServersOf(ide)) :
         LET files == WriteEntries(unit.files, unit.ret.result.entries)
             r == IDEMaterialize(unit.self, ide, files, order)
         IN  unit' = [op |-> "IDE.Materialize", self |-> unit.self, ide |-> ide,
                      files |-> files, order |-> order, ret |-> r,
                      run |-> unit.run + 1, again |-> (ide = unit.ide),
                      ever |-> JoinLists(unit.ever, ResultLists(r.result))]
  /\ UNCHANGED <<fs, pc, self, executable, recipe, genCtx, prior, resultEntries, ideRet, ret,
                 calls>>

\* A direct call of a provider's materializeCommands
CallMaterializeCommands ==
  /\ pc = "idle"
  /\ \E i \in {ClaudeIDE, CursorIDE},
        commands \in {NilCommands}
                     \cup {Commands(es) : es \in SeqsUpTo(CommandEntries, MaxCommands)} :
       unit' = [op |-> "materializeCommands", self |-> i, commands |-> commands,
                ret |-> materializeCommands(i, commands)]
  /\ pc' = "unit"
  /\ UNCHANGED <<fs, self, executable, recipe, genCtx, prior, resultEntries, ideRet, ret, calls>>

\* One run of a race before it has read anything.
RaceProc(ide, order) ==
  [ide |-> ide, order |-> order, at |-> "start", settingEntries |-> <<>>,
   entries |-> <<>>, next |-> 1, readAfter |-> [p \in Paths |-> 0]]

\* Two runs of the Claude provider's Materialize, each followed by the writing
\* of its result, start in the same working directory.
RaceStart ==
  /\ pc = "idle"
  /\ \E files \in InitialFiles, a \in RaceIdes, b \in RaceIdes :
       \E oa \in RangeOrders(ServersOf(a)), ob \in RangeOrders(ServersOf(b)) :
         unit' = [op |-> "race", self |-> ClaudeIDE, initial |-> files, files |-> files,
                  procs |-> <<RaceProc(a, oa), RaceProc(b, ob)>>,
                  writers |-> [p \in Paths |-> <<>>]]
  /\ pc' = "unit"
  /\ UNCHANGED <<fs, self, executable, recipe, genCtx, prior, resultEntries, ideRet, ret, calls>>

\* A run reaches ideSett.Update: the settings file is read and merged.
RaceUpdateSettings ==
  /\ pc = "unit"
  /\ unit.op = "race"
  /\ \E p \in 1..2 :
       LET me == unit.procs[p]
           c == materializeCommands(unit.self, me.ide.commands)
           s == SettingsUpdate(unit.self, me.ide.permissions, me.order,
                               CommandNames(me.ide.commands.entries, 1), unit.files)
       IN  /\ me.at = "start"
           /\ ~IsError(c.err)
           /\ unit' = [unit EXCEPT
                !.procs[p].at = "settings",
                !.procs[p].settingEntries = c.entries \o s,
                !.procs[p].readAfter[ClaudeSettingsPath] =
                   Len(unit.writers[ClaudeSettingsPath])]
  /\ UNCHANGED <<fs, pc, self, executable, recipe, genCtx, prior, resultEntries, ideRet, ret,
                 calls>>

\* The run reaches materializeMcp: the MCP file is read and merged, and
\* Materialize returns its result.
RaceMaterializeMcp ==
  /\ pc = "unit"
  /\ unit.op = "race"
  /\ \E p \in 1..2 :
       LET me == unit.procs[p]
           m == materializeMcp(unit.self, me.ide.mcp, unit.files)
       IN  /\ me.at = "settings"
           /\ ~IsError(m.err)
           /\ unit' = [unit EXCEPT
                !.procs[p].at = "returned",
                !.procs[p].entries = me.settingEntries \o m.entries,
                !.procs[p].readAfter[unit.self.MCPServersJSONPath] =
                   Len(unit.writers[unit.self.MCPServersJSONPath])]
  /\ UNCHANGED <<fs, pc, self, executable, recipe, genCtx, prior, resultEntries, ideRet, ret,
                 calls>>

\* The next entry of a run's result is written to its path.
RacePersist ==
  /\ pc = "unit"
  /\ unit.op = "race"
  /\ \E p \in 1..2 :
       LET me == unit.procs[p]
           e == me.entries[me.next]
       IN  /\ me.at = "returned"
           /\ me.next <= Len(me.entries)
           /\ unit' = [unit EXCEPT
                !.files = WriteEntries(unit.files, <<e>>),
                !.writers = [q \in Paths |->
                               IF q = e.path THEN Append(unit.writers[q], p)
                               ELSE unit.writers[q]],
                !.procs[p].next = me.next + 1,
                !.procs[p].at = IF me.next = Len(me.entries) THEN "done" ELSE "returned"]
  /\ UNCHANGED <<fs, pc, self, executable, recipe, genCtx, prior, resultEntries, ideRet, ret,
                 calls>>

\* The result of a first direct call of a provider's Materialize is written under
\* a root directory: the working directory the call read from, or another one.
PersistMaterializedResult ==
  /\ pc = "unit"
  /\ unit.op = "IDE.Materialize"
  /\ unit.run = 1
  /\ ~IsError(unit.ret.err)
  /\ \E same \in BOOLEAN :
       \E root \in IF same THEN {unit.files} ELSE UnitFiles :
         unit' = [op |-> "PersistMaterializedResult", self |-> unit.self,
                  ide |-> unit.ide, cwd |-> unit.files, same |-> same,
                  rootBefore |-> root, result |-> unit.ret.result,
                  rootAfter |-> WriteEntries(root, unit.ret.result.entries)]
  /\ UNCHANGED <<fs, pc, self, executable, recipe, genCtx, prior, resultEntries, ideRet, ret,
                 calls>>

\* A direct call of utils.ConvertToRawURL
CallConvertToRawURL ==
  /\ pc = "idle"
  /\ \E p \in GithubPaths, version \in GitVersions :
       unit' = [op |-> "ConvertToRawURL", path |-> p, version |-> version,
                ret |-> ConvertToRawURL(p, version)]
  /\ pc' = "unit"
  /\ UNCHANGED <<fs, self, executable, recipe, genCtx, prior, resultEntries, ideRet, ret, calls>>

Next ==
  \/ MaterializeStart
  \/ MaterializePrefetch
  \/ MaterializeContext
  \/ MaterializeIde
  \/ MaterializeReturn
  \/ CallProcess
  \/ CallContextMaterialize
  \/ CallFetchContent
  \/ UnitReturn
  \/ ExecutableMaterialize
  \/ CallMergeUniqueStrings
  \/ CallIDEMaterialize
  \/ MaterializeAgain
  \/ CallMaterializeCommands
  \/ RaceStart
  \/ RaceUpdateSettings
  \/ RaceMaterializeMcp
  \/ RacePersist
  \/ PersistMaterializedResult
  \/ CallConvertToRawURL

Spec == Init /\ [][Next]_vars

(***************************************************************************)
(* Properties.                                                             *)
(***************************************************************************)
ContextEntriesOf(r) == IF r.context.isNil THEN <<>> ELSE r.context.entries

PrefetchEntriesOf(r) == IF r.prefetch.isNil THEN <<>> ELSE r.prefetch.entries

\* C1: when Recipe.Materialize succeeds, its result holds one entry per
\* context entry, in input order, with that entry's path and resolved content,
\* followed by the entries the IDE provider returned, in their order, and
\* nothing else: the prefetch step adds no entry.
C1_ContextThenIde ==
  (pc = "done" /\ ~IsError(ret.err)) =>
    LET es == ret.result.entries
        ctx == ContextEntriesOf(recipe)
        n == Len(ctx)
        ide == ideRet.result.entries
    IN  /\ ~ret.result.isNil
        /\ Len(es) = n + Len(ide)
        /\ \A k \in 1..n :
             /\ es[k].path = ctx[k].path
             /\ "content" \in DOMAIN es[k]
             /\ es[k].content = fetchContent(ctx[k].from, genCtx).val
        /\ \A k \in 1..Len(ide) : es[n + k] = ide[k]

\* C1 witness: a successful call with prefetch entries, two context entries
\* and an IDE section that yields a command, the settings and the MCP file.
C1_Witness ==
  /\ pc = "done"
  /\ ~IsError(ret.err)
  /\ Len(PrefetchEntriesOf(recipe)) >= 1
  /\ Len(ContextEntriesOf(recipe)) = 2
  /\ Len(ideRet.result.entries) = 3
  /\ Len(ret.result.entries) = 5

\* C2: when the prefetch step, any context entry or the IDE materialization
\* fails, Recipe.Materialize returns an error, and whenever it returns an
\* error it returns a nil result, whatever had been collected before.
C2_NoPartialSuccess ==
  (pc = "done" /\ ~recipe.isNil) =>
    LET ctx == ContextEntriesOf(recipe)
        prefetchFails == ~recipe.prefetch.isNil /\ IsError(Process(recipe.prefetch).err)
        contextFails == \E k \in 1..Len(ctx) : IsError(materializeEntry(ctx[k], genCtx).err)
        ideFails == IsError(ideRet.err)
    IN  /\ (prefetchFails \/ contextFails \/ ideFails) => IsError(ret.err)
        /\ IsError(ret.err) => ret.result.isNil

\* C2 witness: the IDE materialization fails after context entries had been
\* collected and a command had run; the call returns the error and no result.
C2_Witness ==
  /\ pc = "done"
  /\ IsError(ideRet.err)
  /\ Len(resultEntries) = 2
  /\ Len(calls) > 0
  /\ IsError(ret.err)
  /\ ret.result.isNil

\* C3: when the context step starts, every prefetch entry has run its command,
\* in list order, and nothing else has been resolved; the generation context
\* then holds exactly what Process returns for this recipe's prefetch section
\* (a nil map when there is none), whatever the call before left; and every
\* context entry with a PrefetchId source got its content from that mapping.
C3_PrefetchBeforeContext ==
  LET pf == PrefetchEntriesOf(recipe)
      ctx == ContextEntriesOf(recipe)
      expected == IF recipe.prefetch.isNil THEN NilMap ELSE Process(recipe.prefetch).map
  IN  /\ pc = "context" =>
           /\ calls = [k \in 1..Len(pf) |-> ShCall(pf[k].cmd)]
           /\ resultEntries = <<>>
           /\ ~genCtx.isNil
           /\ GetPrefetched(genCtx) = expected
      /\ pc = "ide" =>
           /\ SubSeq(calls, 1, Len(pf)) = [k \in 1..Len(pf) |-> ShCall(pf[k].cmd)]
           /\ \A k \in 1..Len(ctx) :
                ctx[k].from.type = "PrefetchId" =>
                  /\ MapHas(expected, ctx[k].from.prefetchId)
                  /\ resultEntries[k].content = expected.kv[ctx[k].from.prefetchId].data
      /\ (pc = "done" /\ ~recipe.isNil /\ recipe.prefetch.isNil
          /\ Len(ctx) > 0 /\ ctx[1].from.type = "PrefetchId") => IsError(ret.err)

\* C3 witness: two prefetch entries have run, the context step has resolved a
\* PrefetchId entry from their mapping, and the call before had left another
\* datum under the same ID.
C3_Witness ==
  /\ pc = "ide"
  /\ Len(PrefetchEntriesOf(recipe)) = 2
  /\ Len(calls) = 2
  /\ Len(resultEntries) > 0
  /\ ContextEntriesOf(recipe)[1].from = PrefetchIdFrom("k1")
  /\ resultEntries[1].content = "z"
  /\ MapHas(GetPrefetched(prior), "k1")
  /\ GetPrefetched(prior).kv["k1"].data = "x"

\* Whether the generation context g maps id.
Prefetched(g, id) == ~g.isNil /\ id \in DOMAIN g.Prefetched.kv

\* The texts of items 1..k, all of them text items, joined in order.
RECURSIVE TextsBefore(_, _)
TextsBefore(items, k) ==
  IF k = 0 THEN "" ELSE TextsBefore(items, k - 1) \o items[k].text

\* C4: a PrefetchId source, as a context source or as a combined item,
\* resolves to the data stored under its ID and otherwise fails with "not
\* found" (also with a nil generation context, a nil map, and a recipe that
\* has no prefetch section); it runs no command and fetches no URL.
C4_PrefetchIdLookup ==
  /\ (unit.op = "fetchContent" /\ unit.from.type = "PrefetchId") =>
       LET id == unit.from.prefetchId IN
       /\ unit.ret.calls = <<>>
       /\ IF Prefetched(unit.genCtx, id)
          THEN /\ ~IsError(unit.ret.err)
               /\ unit.ret.val = unit.genCtx.Prefetched.kv[id].data
          ELSE /\ unit.ret.err = <<Layer("prefetch id not found", -1, id)>>
               /\ unit.ret.val = ""
  /\ (unit.op = "fetchContent" /\ unit.from.type = "Combined") =>
       LET items == unit.from.combined.items IN
       \A k \in 1..Len(items) :
         (/\ items[k].type = "PrefetchId"
          /\ \A j \in 1..(k - 1) : items[j].type = "Text") =>
           IF Prefetched(unit.genCtx, items[k].prefetchId)
           THEN (Len(items) = k) =>
                  /\ ~IsError(unit.ret.err)
                  /\ unit.ret.calls = <<>>
                  /\ unit.ret.val =
                       TextsBefore(items, k - 1)
                       \o unit.genCtx.Prefetched.kv[items[k].prefetchId].data
           ELSE /\ unit.ret.err =
                     <<Layer("failed to fetch combined item", k - 1, ""),
                       Layer("prefetch id not found", -1, items[k].prefetchId)>>
                /\ unit.ret.val = ""
                /\ unit.ret.calls = <<>>
  /\ (pc = "done" /\ ~recipe.isNil /\ recipe.prefetch.isNil) =>
       LET ctx == ContextEntriesOf(recipe) IN
       \A k \in 1..Len(ctx) :
         (/\ ctx[k].from.type = "PrefetchId"
          /\ \A j \in 1..(k - 1) : ctx[j].from.type = "Text") =>
           /\ IsError(ret.err)
           /\ ret.err[Len(ret.err)] =
                Layer("prefetch id not found", -1, ctx[k].from.prefetchId)
           /\ calls = <<>>

\* C4 witness: a PrefetchId source resolved against a nil generation context.
C4_Witness ==
  /\ unit.op = "fetchContent"
  /\ unit.from = PrefetchIdFrom("k1")
  /\ unit.genCtx = NilGenCtx
  /\ unit.ret.err = <<Layer("prefetch id not found", -1, "k1")>>

\* The {id, data} pairs the commands of the entries print, in processing order.
RECURSIVE PairsInOrder(_, _)
PairsInOrder(entries, k) ==
  IF k > Len(entries) THEN <<>>
  ELSE UnmarshalPrefetchResult(Sh(entries[k].cmd).out).data \o PairsInOrder(entries, k + 1)

\* C5: when Process succeeds on a non-empty entry list, the mapping has
\* exactly the IDs of the pairs, and each ID maps to the last pair carrying it
\* in processing order (entries in list order, pairs in payload order).
C5_LastPairWins ==
  (unit.op = "Process" /\ ~IsError(unit.ret.err) /\ Len(unit.prefetch.entries) > 0) =>
    LET pairs == PairsInOrder(unit.prefetch.entries, 1)
        m == unit.ret.map
    IN  /\ ~m.isNil
        /\ DOMAIN m.kv = {pairs[j].id : j \in 1..Len(pairs)}
        /\ \A j \in 1..Len(pairs) :
             (\A l \in (j + 1)..Len(pairs) : pairs[l].id # pairs[j].id) =>
               m.kv[pairs[j].id] = pairs[j]

\* C5 witness: the second entry's pair replaced the first entry's pair of the
\* same ID, and the other ID kept the first entry's datum.
C5_Witness ==
  /\ unit.op = "Process"
  /\ unit.prefetch = Prefetch(<<CmdPfEntry("cat pf1.json"), CmdPfEntry("cat pf2.json")>>)
  /\ ~IsError(unit.ret.err)
  /\ unit.ret.map.kv["k1"].data = "z"
  /\ unit.ret.map.kv["k2"].data = "y"

\* Whether a prefetch entry fails on its own.
PrefetchEntryFails(e) ==
  \/ e.type = "nil"
  \/ IsError(processEntry(e).err)
  \/ IsError(UnmarshalPrefetchResult(processEntry(e).val).err)

\* C6: the first prefetch entry that fails makes Process return an error whose
\* outermost layer carries that entry's index, and a nil mapping.
C6_IndexAnnotated ==
  unit.op = "Process" =>
    LET es == unit.prefetch.entries IN
    \A k \in 1..Len(es) :
      (PrefetchEntryFails(es[k]) /\ \A j \in 1..(k - 1) : ~PrefetchEntryFails(es[j])) =>
        /\ IsError(unit.ret.err)
        /\ unit.ret.err[1].idx = k - 1
        /\ unit.ret.map.isNil

\* C7: when Context.Materialize succeeds, its result has one entry per input
\* entry, at the same position, with the input entry's path and the content
\* its source resolves to; entries sharing a path are all there.
C7_OneEntryPerInput ==
  (unit.op = "Context.Materialize" /\ ~IsError(unit.ret.err)) =>
    LET in == unit.context.entries
        out == unit.ret.result.entries
    IN  /\ ~unit.ret.result.isNil
        /\ Len(out) = Len(in)
        /\ \A k \in 1..Len(out) :
             /\ out[k].path = in[k].path
             /\ out[k].content = fetchContent(in[k].from, unit.genCtx).val

\* C7 witness: two entries of the same path, both kept, in input order.
C7_Witness ==
  /\ unit.op = "Context.Materialize"
  /\ ~IsError(unit.ret.err)
  /\ Len(unit.context.entries) = 2
  /\ unit.ret.result.entries = <<FileEntry("p", "b"), FileEntry("p", "a")>>

\* The external calls of entries 1..k, in order.
RECURSIVE EntryCallsUpTo(_, _, _)
EntryCallsUpTo(entries, genCtx_, k) ==
  IF k = 0 THEN <<>>
  ELSE EntryCallsUpTo(entries, genCtx_, k - 1) \o materializeEntry(entries[k], genCtx_).calls

\* C8: the first entry of Context.Materialize that fails makes it return an
\* error whose outermost layer carries that entry's path, and a nil result,
\* after the external calls of the entries up to that one and of no later one.
C8_FirstFailureAborts ==
  (unit.op = "Context.Materialize" /\ ~unit.context.isNil) =>
    LET in == unit.context.entries
        fails(k) == IsError(materializeEntry(in[k], unit.genCtx).err)
    IN  \A k \in 1..Len(in) :
          (fails(k) /\ \A j \in 1..(k - 1) : ~fails(j)) =>
            /\ IsError(unit.ret.err)
            /\ unit.ret.err[1] =
                 Layer("failed to materialize entry for path", -1, in[k].path)
            /\ unit.ret.result.isNil
            /\ unit.ret.calls = EntryCallsUpTo(in, unit.genCtx, k)

\* C8 witness: the first entry's command fails; the second entry's command,
\* which would have succeeded, is not run.
C8_Witness ==
  /\ unit.op = "Context.Materialize"
  /\ unit.context.entries =
       <<ContextEntry("q", CmdFrom("exit 1")), ContextEntry("q", CmdFrom("echo c"))>>
  /\ unit.ret.calls = <<ShCall("exit 1")>>
  /\ IsError(unit.ret.err)
  /\ unit.ret.err[1].str = "q"
  /\ unit.ret.result.isNil

\* The resolved strings of the items from item k on, joined with nothing between.
RECURSIVE ConcatItems(_, _, _)
ConcatItems(items, genCtx_, k) ==
  IF k > Len(items) THEN ""
  ELSE fetchCombinedItem(items[k], genCtx_).val \o ConcatItems(items, genCtx_, k + 1)

\* C9: a Combined source whose items all resolve resolves, without error, to
\* the items' resolved strings in list order with nothing between them; with
\* no items it resolves to the empty string.
C9_CombinedConcatenates ==
  (unit.op = "fetchContent" /\ unit.from.type = "Combined") =>
    LET items == unit.from.combined.items IN
    (\A k \in 1..Len(items) : ~IsError(fetchCombinedItem(items[k], unit.genCtx).err)) =>
      /\ ~IsError(unit.ret.err)
      /\ unit.ret.val = ConcatItems(items, unit.genCtx, 1)
      /\ (Len(items) = 0 => unit.ret.val = "")

\* C9 witness: a text and a command's output, joined in list order.
C9_Witness ==
  /\ unit.op = "fetchContent"
  /\ unit.from = CombinedFrom(<<CmdFrom("echo c"), TextFrom("a")>>)
  /\ ~IsError(unit.ret.err)
  /\ unit.ret.val = "c\na"

\* The external calls of items 1..k, in order.
RECURSIVE ItemCallsUpTo(_, _, _)
ItemCallsUpTo(items, genCtx_, k) ==
  IF k = 0 THEN <<>>
  ELSE ItemCallsUpTo(items, genCtx_, k - 1) \o fetchCombinedItem(items[k], genCtx_).calls

\* C10: the first item of a Combined source that fails makes the resolution
\* return an error whose outermost layer carries that item's zero-based index
\* and wraps the item's error, and the empty string, after the external calls
\* of the items up to that one and of no later one.
C10_CombinedFailsFast ==
  (unit.op = "fetchContent" /\ unit.from.type = "Combined") =>
    LET items == unit.from.combined.items
        fails(k) == IsError(fetchCombinedItem(items[k], unit.genCtx).err)
    IN  \A k \in 1..Len(items) :
          (fails(k) /\ \A j \in 1..(k - 1) : ~fails(j)) =>
            /\ unit.ret.err =
                 Wrap(Layer("failed to fetch combined item", k - 1, ""),
                      fetchCombinedItem(items[k], unit.genCtx).err)
            /\ unit.ret.val = ""
            /\ unit.ret.calls = ItemCallsUpTo(items, unit.genCtx, k)

\* C10 witness: the first item's command fails; the second item's command is
\* not run and the error names index 0.
C10_Witness ==
  /\ unit.op = "fetchContent"
  /\ unit.from = CombinedFrom(<<CmdFrom("exit 1"), CmdFrom("echo c")>>)
  /\ unit.ret.calls = <<ShCall("exit 1")>>
  /\ unit.ret.err[1] = Layer("failed to fetch combined item", 0, "")
  /\ unit.ret.val = ""

\* The elements of a list.
Elements(list) == {list[k] : k \in 1..Len(list)}

\* Where x stands first in a list that holds it.
FirstIndex(list, x) ==
  CHOOSE k \in 1..Len(list) : list[k] = x /\ \A j \in 1..(k - 1) : list[j] # x

\* The place of x in existing followed by new, by first occurrence.
MergeRank(existing, new, x) ==
  IF x \in Elements(existing) THEN FirstIndex(existing, x)
  ELSE Len(existing) + FirstIndex(new, x)

\* out holds every string of existing and new, each once, those of existing
\* first and then the others of new, all by first occurrence.
IsStableMerge(existing, new, out) ==
  /\ Elements(out) = Elements(existing) \cup Elements(new)
  /\ \A i, j \in 1..Len(out) :
       i < j => MergeRank(existing, new, out[i]) < MergeRank(existing, new, out[j])

\* The settings document a directory holds, and the one a result carries.
ExistingSettingsDoc(files) ==
  IF files[ClaudeSettingsPath].kind = "json" THEN files[ClaudeSettingsPath].json ELSE <<>>

ProducedSettingsDoc(result) == WrittenTo(result.entries, ClaudeSettingsPath).doc

\* The list under permissions.<key> of a settings document; empty when absent.
PermissionList(doc, key) ==
  IF "permissions" \in DOMAIN doc /\ key \in DOMAIN doc.permissions
  THEN doc.permissions[key] ELSE <<>>

\* The permissions with a variant set, each written as Variant(arg).
Granted(perms) ==
  LET set == SelectSeq(perms, LAMBDA q : q.type \in {"Bash", "Read", "Write"})
  IN  [k \in 1..Len(set) |-> set[k].type \o "(" \o set[k].arg \o ")"]

\* The allow and deny strings an Ide section asks for, the servers in `order`.
AllowOf(ide, order) ==
  (IF ide.permissions.isNil THEN <<>> ELSE Granted(ide.permissions.allow))
  \o [k \in 1..Len(order) |-> "mcp__" \o order[k]]
  \o [k \in 1..Len(ide.commands.entries) |->
        "SlashCommand(/" \o ide.commands.entries[k].name \o ")"]

DenyOf(ide) == IF ide.permissions.isNil THEN <<>> ELSE Granted(ide.permissions.deny)

\* A direct call of the Claude provider's Materialize that succeeded.
ClaudeMaterialized ==
  /\ unit.op = "IDE.Materialize"
  /\ unit.self = ClaudeIDE
  /\ ~IsError(unit.ret.err)

\* C11: mergeUniqueStrings(existing, new) returns every distinct string of
\* existing and new exactly once, those of existing first in first-occurrence
\* order, then those only in new in first-occurrence order; the allow list and
\* the deny list of the Claude settings are each merged so, from their own
\* existing list and their own new strings.
C11_StableMerge ==
  /\ unit.op = "mergeUniqueStrings" =>
       IsStableMerge(unit.existing, unit.new, unit.ret)
  /\ ClaudeMaterialized =>
       LET old == ExistingSettingsDoc(unit.files)
           out == ProducedSettingsDoc(unit.ret.result)
       IN  /\ IsStableMerge(PermissionList(old, "allow"), AllowOf(unit.ide, unit.order),
                            PermissionList(out, "allow"))
           /\ IsStableMerge(PermissionList(old, "deny"), DenyOf(unit.ide),
                            PermissionList(out, "deny"))

\* C11 witness: existing holds a duplicate, new repeats a string of existing
\* and brings two of its own, one of them twice.
C11_Witness ==
  /\ unit.op = "mergeUniqueStrings"
  /\ unit.existing = <<"s2", "s2">>
  /\ unit.new = <<"s3", "s2", "s1">>
  /\ unit.ret = <<"s2", "s3", "s1">>

\* C12: along any sequence of Claude settings materializations in one
\* directory, each reading what the one before wrote, every string that was in
\* allow, deny, ask or enabledMcpjsonServers of the well-formed starting file
\* or of any output is in the same list of the latest output.
C12_NothingRemoved ==
  ClaudeMaterialized =>
    LET now == ResultLists(unit.ret.result) IN
    /\ unit.ever.allow \subseteq now.allow
    /\ unit.ever.deny \subseteq now.deny
    /\ unit.ever.ask \subseteq now.ask
    /\ unit.ever.enabled \subseteq now.enabled

\* C12 witness: the third materialization, of an Ide section with nothing in
\* it, still holds what the starting file and the earlier recipes brought.
C12_Witness ==
  /\ ClaudeMaterialized
  /\ unit.run = 3
  /\ unit.ide = Ide(NilCommands, NilPermissions, NilMcp)
  /\ LET now == ResultLists(unit.ret.result) IN
     /\ "Write(*)" \in now.ask
     /\ "old" \in now.enabled
     /\ "devplan" \in now.enabled
     /\ "SlashCommand(/fmt)" \in now.allow
     /\ "Read(.env)" \in now.deny

\* C13: the allow list of the Claude settings holds the existing allow entries,
\* one Variant(arg) string per allow permission with a variant set, one
\* mcp__<name> per MCP server of the spec and one SlashCommand(/<name>) per
\* command, and nothing else; the deny list holds the existing deny entries
\* and the formatted deny permissions, and nothing else.
C13_AllowAndDeny ==
  ClaudeMaterialized =>
    LET old == ExistingSettingsDoc(unit.files)
        out == ProducedSettingsDoc(unit.ret.result)
        perms == unit.ide.permissions
        variants == {"Bash", "Read", "Write"}
        granted(list) == {list[k].type \o "(" \o list[k].arg \o ")" :
                            k \in {j \in 1..Len(list) : list[j].type \in variants}}
        cmds == unit.ide.commands.entries
    IN  /\ WrittenTo(unit.ret.result.entries, ClaudeSettingsPath).written
        /\ Elements(PermissionList(out, "allow")) =
             Elements(PermissionList(old, "allow"))
             \cup (IF perms.isNil THEN {} ELSE granted(perms.allow))
             \cup {"mcp__" \o n : n \in DOMAIN unit.ide.mcp.servers}
             \cup {"SlashCommand(/" \o cmds[k].name \o ")" : k \in 1..Len(cmds)}
        /\ Elements(PermissionList(out, "deny")) =
             Elements(PermissionList(old, "deny"))
             \cup (IF perms.isNil THEN {} ELSE granted(perms.deny))

\* C13 witness: an existing file and an Ide section with permissions (one of
\* them without a variant), two MCP servers and a command.
C13_Witness ==
  /\ ClaudeMaterialized
  /\ unit.run = 1
  /\ unit.files[ClaudeSettingsPath] = ExistingSettings
  /\ unit.ide.mcp = GithubAndDevplan
  /\ Len(unit.ide.commands.entries) = 1
  /\ ~unit.ide.permissions.isNil
  /\ UnsetPermission \in Elements(unit.ide.permissions.allow)
  /\ Elements(PermissionList(ProducedSettingsDoc(unit.ret.result), "allow")) =
       {"Bash(git status:*)", "mcp__github", "mcp__devplan", "SlashCommand(/fmt)"}

\* C14: materializing the Claude settings again with the same permissions,
\* MCP servers and commands, in the directory that holds the first output,
\* produces a document equal to the first output.
C14_SettingsIdempotent ==
  (ClaudeMaterialized /\ unit.run > 1 /\ unit.again) =>
    ProducedSettingsDoc(unit.ret.result) = ExistingSettingsDoc(unit.files)

\* C14 witness: a second materialization of an Ide section that had added
\* permissions, MCP servers and a command to an existing file.
C14_Witness ==
  /\ ClaudeMaterialized
  /\ unit.run = 2
  /\ unit.again
  /\ unit.ide.mcp = GithubAndDevplan
  /\ Len(unit.ide.commands.entries) = 2
  /\ ~unit.ide.permissions.isNil
  /\ "Write(*)" \in ResultLists(unit.ret.result).ask
  /\ "SlashCommand(/run)" \in ResultLists(unit.ret.result).allow

\* A direct call of a provider's Materialize, with an Mcp section, that succeeded.
McpMaterialized ==
  /\ unit.op = "IDE.Materialize"
  /\ ~IsError(unit.ret.err)
  /\ ~unit.ide.mcp.isNil

\* The server objects of the MCP file a directory holds, and of a result.
ExistingServers(files, path) ==
  IF files[path].kind = "json" /\ "mcpServers" \in DOMAIN files[path].json
  THEN files[path].json.mcpServers ELSE <<>>

ProducedServers(result, path) == WrittenTo(result.entries, path).doc.mcpServers

\* C15: MCP-server materialization of one spec against one starting file gives
\* the same file content whichever way the call runs, and run again with the
\* same spec in the directory that holds its output it gives that output.
C15_McpIdempotent ==
  McpMaterialized =>
    LET path == unit.self.MCPServersJSONPath
        it == WrittenTo(unit.ret.result.entries, path)
    IN  /\ it.written
        /\ \A order \in RangeOrders(unit.ide.mcp.servers) :
             WrittenTo(IDEMaterialize(unit.self, unit.ide, unit.files, order).result.entries,
                       path) = it
        /\ (unit.run > 1 /\ unit.again) => unit.files[path] = JsonFile(it.doc)

\* C15 witness: the second run of a spec whose first run had merged servers
\* into an existing file that held other servers.
C15_Witness ==
  /\ McpMaterialized
  /\ unit.run = 2
  /\ unit.again
  /\ unit.ide.mcp = GithubAndDevplan
  /\ DOMAIN ProducedServers(unit.ret.result, unit.self.MCPServersJSONPath) =
       {"old", "github", "devplan"}

\* The value of a field of a server object; the empty value when it is absent.
FieldOf(obj, key) ==
  IF key \in DOMAIN obj THEN obj[key]
  ELSE IF key \in {"args", "env"} THEN <<>> ELSE ""

\* The object buildMcpJSON is to store for a server of the spec.
ServerObject(srv) ==
  IF srv.type = "Http" THEN [type |-> "http", url |-> srv.url]
  ELSE LET parts == Fields(srv.command) IN
       ("type" :> "stdio")
       @@ (IF Len(parts) > 0 THEN "command" :> parts[1] ELSE <<>>)
       @@ (IF Len(parts) > 1 THEN "args" :> SubSeq(parts, 2, Len(parts)) ELSE <<>>)

\* C16: with a well-formed existing file, the produced MCP file holds every
\* server that is only in the existing file with the values of its type,
\* command, args, env and url as they were, holds for every server of the spec
\* with a recognized variant exactly the object derived from the spec, whatever
\* the existing entry of that name held, and holds no other server.
C16_McpMerge ==
  (McpMaterialized /\ unit.files[unit.self.MCPServersJSONPath].kind = "json") =>
    LET path == unit.self.MCPServersJSONPath
        old == ExistingServers(unit.files, path)
        out == ProducedServers(unit.ret.result, path)
        new == unit.ide.mcp.servers
        recognized == {n \in DOMAIN new : new[n].type \in {"Http", "Stdio"}}
    IN  /\ DOMAIN out = DOMAIN old \cup recognized
        /\ \A n \in recognized : out[n] = ServerObject(new[n])
        /\ \A n \in DOMAIN old \ recognized :
             \A key \in {"type", "command", "args", "env", "url"} :
               FieldOf(out[n], key) = FieldOf(old[n], key)

\* C16 witness: the spec's devplan replaces the existing devplan, whose args
\* and env are gone, the existing server old is kept, and github is added.
C16_Witness ==
  /\ McpMaterialized
  /\ unit.run = 1
  /\ unit.files[unit.self.MCPServersJSONPath] = ExistingMcp
  /\ unit.ide.mcp = GithubAndDevplan
  /\ LET out == ProducedServers(unit.ret.result, unit.self.MCPServersJSONPath) IN
     /\ out["devplan"] = [type |-> "stdio", command |-> "devplan", args |-> <<"mcp">>]
     /\ out["old"] = [type |-> "http", url |-> "https://old.example/mcp"]
     /\ "github" \in DOMAIN out

\* The directory with every file that is not JSON taken away.
WithoutMalformed(files) ==
  [p \in DOMAIN files |-> IF files[p].kind = "text" THEN Absent ELSE files[p]]

\* C17: when the existing MCP-servers file or Claude settings file is not
\* well-formed JSON, Materialize returns what it returns when the file is
\* absent, and no error unless a command of the Ide section fails.
C17_MalformedAsAbsent ==
  (unit.op = "IDE.Materialize" /\ \E p \in Paths : unit.files[p].kind = "text") =>
    /\ unit.ret = IDEMaterialize(unit.self, unit.ide, WithoutMalformed(unit.files),
                                 unit.order)
    /\ (~unit.ide.isNil /\ ~IsError(materializeCommands(unit.self, unit.ide.commands).err))
         => ~IsError(unit.ret.err)

\* C17 witness: both files are malformed and the Claude provider produces the
\* settings and the MCP file of the spec alone.
C17_Witness ==
  /\ ClaudeMaterialized
  /\ unit.files[ClaudeSettingsPath] = Malformed
  /\ unit.files[ClaudeMcpPath] = Malformed
  /\ unit.ide.mcp = GithubAndDevplan
  /\ ~unit.ide.permissions.isNil
  /\ DOMAIN ProducedServers(unit.ret.result, ClaudeMcpPath) = {"github", "devplan"}
  /\ ResultLists(unit.ret.result).enabled = {"github", "devplan"}
  /\ ResultLists(unit.ret.result).ask = {}

\* Whether a context source has no variant set, itself or in a combined item.
HasUnsetSource(from) ==
  \/ from.type = "Unset"
  \/ /\ from.type = "Combined"
     /\ \E k \in 1..Len(from.combined.items) : from.combined.items[k].type = "Unset"

\* Whether the direct call was handed an unset variant of one of the kinds
\* that are resolved to content: a prefetch entry, a context source, a
\* combined item or a command source.
UnsetSourceGiven ==
  \/ /\ unit.op = "Process"
     /\ \E k \in 1..Len(unit.prefetch.entries) : unit.prefetch.entries[k].type = "Unset"
  \/ /\ unit.op = "Context.Materialize"
     /\ \E k \in 1..Len(unit.context.entries) : HasUnsetSource(unit.context.entries[k].from)
  \/ /\ unit.op = "fetchContent"
     /\ HasUnsetSource(unit.from)
  \/ /\ unit.op = "IDE.Materialize"
     /\ ~unit.ide.isNil
     /\ \E k \in 1..Len(unit.ide.commands.entries) :
          unit.ide.commands.entries[k].from.type = "Unset"

\* Whether the direct call was handed an operation permission or an MCP
\* server with no variant set.
UnsetSettingGiven ==
  /\ unit.op = "IDE.Materialize"
  /\ ~unit.ide.isNil
  /\ \/ UnsetPermission \in Elements(unit.ide.permissions.allow)
     \/ UnsetPermission \in Elements(unit.ide.permissions.deny)
     \/ \E n \in DOMAIN unit.ide.mcp.servers : unit.ide.mcp.servers[n].type = "Unset"

\* C18 as stated: an unset oneof variant anywhere in what is materialized, an
\* operation permission or an MCP server included, makes the call fail.
C18_UnsetAlwaysFatal ==
  (UnsetSourceGiven \/ UnsetSettingGiven) => IsError(unit.ret.err)

\* C18, amended: an unset variant of a prefetch entry, a context source, a
\* combined item or a command source makes the call fail; an operation
\* permission or an MCP server with no variant set is skipped without error:
\* the call fails only if a command of the Ide section does, the permission
\* adds no string to allow or deny, and the server is not written to the
\* MCP-servers file unless the existing file holds its name.
C18_UnsetFatalOrSkipped ==
  /\ UnsetSourceGiven => IsError(unit.ret.err)
  /\ UnsetSettingGiven =>
       /\ IsError(unit.ret.err) <=>
            IsError(materializeCommands(unit.self, unit.ide.commands).err)
       /\ ~IsError(unit.ret.err) =>
            LET path == unit.self.MCPServersJSONPath
                out == WrittenTo(unit.ret.result.entries, path)
                lists == ResultLists(unit.ret.result)
                before == FileLists(unit.files)
            IN  /\ "" \notin lists.allow \cup lists.deny
                /\ lists.deny \subseteq before.deny \cup Elements(DenyOf(unit.ide))
                /\ \A n \in DOMAIN unit.ide.mcp.servers :
                     (unit.ide.mcp.servers[n].type = "Unset" /\ out.written) =>
                       (n \in DOMAIN out.doc.mcpServers
                          <=> n \in DOMAIN ExistingServers(unit.files, path))

\* C18 witness: a permission and an MCP server with no variant set are handed
\* to the Claude provider, which succeeds and leaves both out.
C18_Witness ==
  /\ ClaudeMaterialized
  /\ unit.run = 1
  /\ unit.files[ClaudeSettingsPath] = Absent
  /\ UnsetPermission \in Elements(unit.ide.permissions.allow)
  /\ unit.ide.mcp = DevplanAndUnset
  /\ DOMAIN ProducedServers(unit.ret.result, ClaudeMcpPath) = {"devplan"}
  /\ ResultLists(unit.ret.result).allow = {"Bash(git status:*)", "mcp__devplan", "mcp__x"}

\* C19: the executable recipe takes the Claude provider for claude and the
\* Cursor CLI provider for cursor-cli, in any letter case; for any other
\* identifier Materialize returns an error that names it, with no result, no
\* new generation context, no command run and nothing collected, whatever the
\* recipe holds.
C19_IdeSelection ==
  ~executable.isNil =>
    LET ideType == GetIdeType(executable.entryPoint) IN
    IF ideType \in {"claude", "Claude", "CLAUDE"} THEN
      /\ self = ClaudeIDE
      /\ IsError(ret.err) => ret.err[1].msg # "failed to get IDE"
    ELSE IF ideType \in {"cursor-cli", "Cursor-CLI"} THEN
      /\ self = CursorIDE
      /\ IsError(ret.err) => ret.err[1].msg # "failed to get IDE"
    ELSE
      /\ pc = "done"
      /\ ret.err = <<Layer("failed to get IDE", -1, ""),
                     Layer("unsupported IDE type", -1, ideType)>>
      /\ ret.result.isNil
      /\ calls = <<>>
      /\ resultEntries = <<>>
      /\ ideRet = NoIdeRet
      /\ genCtx = prior

\* C19 witness: an unknown identifier with a recipe that has prefetch and
\* context entries and no IDE section; nothing has run.
C19_Witness ==
  /\ pc = "done"
  /\ ~executable.isNil
  /\ executable.entryPoint = EntryPoint("vscode")
  /\ ~executable.recipe.isNil
  /\ ~executable.recipe.prefetch.isNil
  /\ executable.recipe.ide.isNil
  /\ IsError(ret.err)
  /\ calls = <<>>

\* C20: Recipe.Materialize with the Claude provider, on a recipe that has only
\* an IDE section holding only commands, returns exactly one entry per
\* command, <CommandsFolder>/<name>.md with the resolved content.
C20_CommandsOnly ==
  (/\ pc = "done"
   /\ ~IsError(ret.err)
   /\ self = ClaudeIDE
   /\ recipe.prefetch.isNil
   /\ recipe.context.isNil
   /\ ~recipe.ide.isNil
   /\ ~recipe.ide.commands.isNil
   /\ recipe.ide.permissions.isNil
   /\ recipe.ide.mcp.isNil) =>
    LET cmds == recipe.ide.commands.entries IN
    ret.result.entries =
      [k \in 1..Len(cmds) |->
         FileEntry(".claude/commands/" \o cmds[k].name \o ".md",
                   fetchCommandContent(cmds[k].from).val)]


\* Whether a command makes materializeCommands fail: it has no name, no
\* source, or a source that cannot be resolved.
CommandFails(c) ==
  \/ c.name = ""
  \/ c.from.type = "nil"
  \/ IsError(fetchCommandContent(c.from).err)

\* C21: materializeCommands returns, when every command has a name and a
\* source that resolves, one entry per command in input order at
\* <CommandsFolder>/<name>.md with the resolved content; otherwise the first
\* command without a name, without a source or with a failing source makes it
\* return an error, which names the command when it has a name, and no entry.
C21_OneEntryPerCommand ==
  unit.op = "materializeCommands" =>
    LET cmds == unit.commands.entries
        failing == {k \in 1..Len(cmds) : CommandFails(cmds[k])}
    IN  IF failing = {} THEN
          /\ unit.ret.err = NoError
          /\ unit.ret.entries =
               [k \in 1..Len(cmds) |->
                  FileEntry(unit.self.CommandsFolder \o "/" \o cmds[k].name \o ".md",
                            fetchCommandContent(cmds[k].from).val)]
        ELSE
          LET first == CHOOSE k \in failing : \A j \in failing : k <= j IN
          /\ IsError(unit.ret.err)
          /\ unit.ret.entries = <<>>
          /\ IF cmds[first].name = ""
             THEN unit.ret.err = Errorf("command name cannot be empty")
             ELSE unit.ret.err[1].str = cmds[first].name
          /\ cmds[first].from.type \notin {"nil"} /\ cmds[first].name # "" =>
               unit.ret.err = Wrap(Layer("failed to materialize command", -1, cmds[first].name),
                                   fetchCommandContent(cmds[first].from).err)

\* C21 witnesses: two commands resolved in order, and a failure of the second
\* command after the first was resolved.
C21_Witness ==
  /\ unit.op = "materializeCommands"
  /\ Len(unit.commands.entries) = 2
  /\ ~CommandFails(unit.commands.entries[1])
  /\ unit.commands.entries[2].name = "bad"
  /\ IsError(unit.ret.err)
  /\ unit.ret.entries = <<>>


\* What a run of a race asks for: the strings of its Ide section for the four
\* lists of the settings file, and the servers it has with a recognized variant.
AskedLists(me) ==
  [allow |-> Elements(AllowOf(me.ide, me.order)), deny |-> Elements(DenyOf(me.ide)),
   ask |-> {}, enabled |-> Elements(me.order)]

AskedServers(me) ==
  {n \in DOMAIN me.ide.mcp.servers : me.ide.mcp.servers[n].type \in {"Http", "Stdio"}}

\* What a file of a directory holds of lists (settings) and of servers (MCP).
HeldLists(files, path) ==
  IF path = ClaudeSettingsPath THEN FileLists(files) ELSE NoLists

HeldServers(files, path) ==
  IF path = ClaudeSettingsPath THEN {} ELSE DOMAIN ExistingServers(files, path)

ListKeys == {"allow", "deny", "ask", "enabled"}

\* C22: two runs of Materialize, each followed by the writing of its result,
\* share a working directory without locking.  A file written by a run holds
\* exactly what the run that wrote it last produced for it.  When both runs
\* read a file before either wrote it, what only the earlier writer asked for
\* is not in the file after the later write; when the later writer read the
\* file after the earlier write, the file holds what was there at the start
\* and what both runs asked for.
C22_LastWriteWins ==
  unit.op = "race" =>
    \A path \in {ClaudeSettingsPath, ClaudeMcpPath} :
      LET w == unit.writers[path] IN
      /\ Len(w) > 0 =>
           unit.files[path] = JsonFile(WrittenTo(unit.procs[w[Len(w)]].entries, path).doc)
      /\ Len(w) = 2 =>
           LET first == unit.procs[w[1]]
               last == unit.procs[w[2]]
               before == HeldLists(unit.initial, path)
               now == HeldLists(unit.files, path)
               serversBefore == HeldServers(unit.initial, path)
               serversNow == HeldServers(unit.files, path)
           IN  /\ (first.readAfter[path] = 0 /\ last.readAfter[path] = 0) =>
                    /\ \A key \in ListKeys :
                         now[key] \cap (AskedLists(first)[key]
                                          \ (before[key] \cup AskedLists(last)[key])) = {}
                    /\ path = ClaudeMcpPath =>
                         serversNow \cap (AskedServers(first)
                                            \ (serversBefore \cup AskedServers(last))) = {}
               /\ last.readAfter[path] = 1 =>
                    /\ path = ClaudeSettingsPath =>
                         \A key \in ListKeys :
                           before[key] \cup AskedLists(first)[key] \cup AskedLists(last)[key]
                             \subseteq now[key]
                    /\ path = ClaudeMcpPath =>
                         serversBefore \cup AskedServers(first) \cup AskedServers(last)
                           \subseteq serversNow

\* C22 witness: both runs read the absent settings file before either wrote;
\* the first writer's result granted mcp__github, and after the second write
\* the file does not.
C22_Witness ==
  /\ unit.op = "race"
  /\ unit.initial[ClaudeSettingsPath] = Absent
  /\ unit.writers[ClaudeSettingsPath] = <<1, 2>>
  /\ unit.procs[1].readAfter[ClaudeSettingsPath] = 0
  /\ unit.procs[2].readAfter[ClaudeSettingsPath] = 0
  /\ "mcp__github" \in ListsOf(WrittenTo(unit.procs[1].entries, ClaudeSettingsPath).doc).allow
  /\ "mcp__github" \notin FileLists(unit.files).allow
  /\ "mcp__x" \in FileLists(unit.files).allow


\* A source of a recipe as the document gives it: its variant, what the
\* variant holds, and whether its output is to parse as a prefetch result.
Source(type, arg, parse) == [type |-> type, arg |-> arg, parse |-> parse]

\* An entry or command that is rejected before its source is looked at.
Rejected == Source("rejected", "", FALSE)

SourceOf(from) ==
  CASE from.type = "Text"       -> Source("Text", from.text, FALSE)
    [] from.type = "Cmd"        -> Source("Cmd", from.cmd, FALSE)
    [] from.type = "Github"     -> Source("Github", from.github.path, FALSE)
    [] from.type = "PrefetchId" -> Source("PrefetchId", from.prefetchId, FALSE)
    [] OTHER                    -> Rejected

\* The sources of a recipe in document order: the prefetch entries, the context
\* entries with the items of a combined source in list order, the commands.
RECURSIVE ContextSources(_, _)
ContextSources(entries, k) ==
  IF k > Len(entries) THEN <<>>
  ELSE (IF entries[k].path = "" THEN <<Rejected>>
        ELSE IF entries[k].from.type = "Combined"
             THEN [j \in 1..Len(entries[k].from.combined.items) |->
                     SourceOf(entries[k].from.combined.items[j])]
             ELSE <<SourceOf(entries[k].from)>>)
       \o ContextSources(entries, k + 1)

SourcesOf(r) ==
  LET pf == PrefetchEntriesOf(r)
      cmds == IF r.ide.isNil THEN <<>> ELSE r.ide.commands.entries
  IN  [k \in 1..Len(pf) |->
         IF pf[k].type = "Cmd" THEN Source("Cmd", pf[k].cmd, TRUE) ELSE Rejected]
      \o ContextSources(ContextEntriesOf(r), 1)
      \o [k \in 1..Len(cmds) |->
            IF cmds[k].name = "" THEN Rejected ELSE SourceOf(cmds[k].from)]

\* The one external call a source makes when it is attempted, if it makes any.
Attempt(s) ==
  CASE s.type = "Cmd" /\ s.arg # ""    -> <<ShCall(s.arg)>>
    [] s.type = "Github" /\ s.arg # ""
         /\ ~IsError(ConvertToRawURL(ParsePath(s.arg), NilVersion).err) ->
         <<HttpCall(ConvertToRawURL(ParsePath(s.arg), NilVersion).val)>>
    [] OTHER                           -> <<>>

\* Whether a source fails, by what the shell and the server answer.
SourceFails(s, g) ==
  CASE s.type = "Text"       -> FALSE
    [] s.type = "Cmd"        -> \/ s.arg = ""
                                \/ Sh(s.arg).exit # 0
                                \/ s.parse /\ IsError(UnmarshalPrefetchResult(Sh(s.arg).out).err)
    [] s.type = "Github"     ->
         \/ s.arg = ""
         \/ IsError(ConvertToRawURL(ParsePath(s.arg), NilVersion).err)
         \/ HttpGet(ConvertToRawURL(ParsePath(s.arg), NilVersion).val).status # 200
    [] s.type = "PrefetchId" -> ~Prefetched(g, s.arg)
    [] OTHER                 -> TRUE

\* The calls made when the sources from the k-th on are attempted one after
\* another, each once, up to and including the first that fails.
RECURSIVE AttemptsUntilFailure(_, _, _)
AttemptsUntilFailure(srcs, g, k) ==
  IF k > Len(srcs) THEN <<>>
  ELSE IF SourceFails(srcs[k], g) THEN Attempt(srcs[k])
       ELSE Attempt(srcs[k]) \o AttemptsUntilFailure(srcs, g, k + 1)

IsPrefix(s, t) == Len(s) <= Len(t) /\ SubSeq(t, 1, Len(s)) = s

\* C23: the commands run and URLs fetched by one Recipe.Materialize call are
\* those of the recipe's sources in document order (prefetch entries, context
\* entries with combined items in list order, IDE commands), one call per Cmd
\* or Github source, up to and including the first source that fails and none
\* after it; the call succeeds exactly when no source fails.
C23_SequentialSingleAttempt ==
  ~recipe.isNil =>
    LET expected == AttemptsUntilFailure(SourcesOf(recipe), genCtx, 1) IN
    /\ pc = "prefetch" => calls = <<>>
    /\ pc \in {"context", "ide"} => IsPrefix(calls, expected)
    /\ pc = "done" =>
         /\ calls = expected
         /\ IsError(ret.err) <=>
              \E k \in 1..Len(SourcesOf(recipe)) : SourceFails(SourcesOf(recipe)[k], genCtx)

\* C23 witness: a recipe with a prefetch entry, a command source, a combined
\* source whose second item fails after its first was run, and sources after it.
C23_Witness ==
  /\ pc = "done"
  /\ ~recipe.isNil
  /\ IsError(ret.err)
  /\ calls = <<ShCall("cat pf1.json"), ShCall("echo c"), ShCall("echo c"),
               HttpCall(RawMissing)>>
  /\ Len(SourcesOf(recipe)) = 7


\* C24: in the MCP file a provider produces, the entry of every Stdio server
\* of the spec has type "stdio", as command the first whitespace-delimited
\* token of the command string, as args the remaining tokens in order, and an
\* env field that is present and is the empty object.
C24_StdioEntry ==
  McpMaterialized =>
    LET out == ProducedServers(unit.ret.result, unit.self.MCPServersJSONPath)
        new == unit.ide.mcp.servers
    IN  \A n \in DOMAIN new :
          new[n].type = "Stdio" =>
            LET parts == Fields(new[n].command) IN
            /\ n \in DOMAIN out
            /\ FieldOf(out[n], "type") = "stdio"
            /\ FieldOf(out[n], "command") = parts[1]
            /\ FieldOf(out[n], "args") = SubSeq(parts, 2, Len(parts))
            /\ "env" \in DOMAIN out[n]
            /\ out[n].env = <<>>


\* The mode and the enable-all flag a settings document carries.
ModeAndFlagSet(doc) ==
  /\ "defaultMode" \in DOMAIN doc.permissions
  /\ doc.permissions.defaultMode = "acceptEdits"
  /\ "enableAllProjectMcpServers" \in DOMAIN doc
  /\ doc.enableAllProjectMcpServers = TRUE

\* C25: after every Claude settings materialization the allow, deny and ask
\* lists of the settings struct are non-nil, and the produced document has
\* permissions.defaultMode set (to acceptEdits) and enableAllProjectMcpServers
\* true, whatever the input and whatever the existing file held for the two.
C25_ModeAndFlag ==
  /\ ClaudeMaterialized =>
       LET s == claudeSettingsOf(unit.ide.permissions, unit.order,
                                 CommandNames(unit.ide.commands.entries, 1),
                                 ReadExisting(unit.files, ClaudeSettingsPath))
           it == WrittenTo(unit.ret.result.entries, ClaudeSettingsPath)
       IN  /\ ~s.Allow.isNil /\ ~s.Deny.isNil /\ ~s.Ask.isNil
           /\ it.written
           /\ it.doc = MarshalClaudeSettings(s)
           /\ ModeAndFlagSet(it.doc)
  /\ (/\ pc = "done"
      /\ self = ClaudeIDE
      /\ ~recipe.isNil
      /\ ~recipe.ide.isNil
      /\ ~IsError(ret.err)) =>
       /\ WrittenTo(ret.result.entries, ClaudeSettingsPath).written
       /\ ModeAndFlagSet(WrittenTo(ret.result.entries, ClaudeSettingsPath).doc)

\* C25 witness: the existing file holds defaultMode plan and the flag false,
\* and no ask list; the produced document holds acceptEdits and true.
C25_Witness ==
  /\ ClaudeMaterialized
  /\ unit.run = 1
  /\ unit.files[ClaudeSettingsPath] = SparseSettings
  /\ unit.ide.permissions.isNil
  /\ ModeAndFlagSet(ProducedSettingsDoc(unit.ret.result))


\* A direct call of ConvertToRawURL on a path that starts, after its scheme,
\* with github.com/.
OnGithubPath ==
  /\ unit.op = "ConvertToRawURL"
  /\ unit.path.host = "github.com"

\* The raw-content URL of an owner, a repository, a ref and the segments of a
\* file path.
RawContentURL(owner, repo, ref, file) ==
  "https://raw.githubusercontent.com/" \o owner \o "/" \o repo \o "/" \o ref
    \o "/" \o Join(file, "/")

InvalidPath(segs) == <<Layer("invalid github path format", -1, Join(segs, "/"))>>

\* The ref a version stands for: its tag, its commit, main when there is none.
RefOf(version) ==
  IF version.isNil THEN "main"
  ELSE CASE version.type = "Tag"    -> version.value
         [] version.type = "Commit" -> version.value
         [] OTHER                   -> "main"

\* C26 as stated: a github.com path whose third segment is blob or tree gives
\* https://raw.githubusercontent.com/<owner>/<repo>/<ref>/<file-path> when it
\* has the five segments owner, repo, blob|tree, ref and file-path, and fails
\* with 'invalid github path format' whenever it does not have all five.
C26_BlobOrTreeFiveSegments ==
  (OnGithubPath /\ Len(unit.path.segs) >= 3 /\ unit.path.segs[3] \in {"blob", "tree"}) =>
    LET s == unit.path.segs IN
    IF Len(s) >= 5
    THEN unit.ret = [err |-> NoError,
                     val |-> RawContentURL(s[1], s[2], s[4], SubSeq(s, 5, Len(s)))]
    ELSE unit.ret = [err |-> InvalidPath(s), val |-> ""]

\* C26, amended: a github.com path whose third segment is blob or tree gives
\* https://raw.githubusercontent.com/<owner>/<repo>/<ref>/<file-path> when it
\* has owner, repo, blob|tree, ref and a file-path (which may hold slashes),
\* fails with 'invalid github path format' when it has the four segments
\* owner, repo, blob|tree, ref, and, when blob|tree is its last segment, is
\* read as owner, repo and a file of that name at the version's ref.
C26_BlobOrTree ==
  (OnGithubPath /\ Len(unit.path.segs) >= 3 /\ unit.path.segs[3] \in {"blob", "tree"}) =>
    LET s == unit.path.segs IN
    CASE Len(s) >= 5 ->
           unit.ret = [err |-> NoError,
                       val |-> RawContentURL(s[1], s[2], s[4], SubSeq(s, 5, Len(s)))]
      [] Len(s) = 4 ->
           unit.ret = [err |-> InvalidPath(s), val |-> ""]
      [] OTHER ->
           unit.ret = [err |-> NoError,
                       val |-> RawContentURL(s[1], s[2], RefOf(unit.version), <<s[3]>>)]

\* C26 witness: a blob path whose file path has two segments.
C26_Witness ==
  /\ OnGithubPath
  /\ unit.path.segs = <<"x", "x", "blob", "x", "tree", "x">>
  /\ unit.ret.val = "https://raw.githubusercontent.com/x/x/x/tree/x"

\* C27: a github.com path of three or more segments whose third segment is
\* neither blob nor tree gives the URL of owner and repo from the first two
\* segments, the file path from all the remaining segments, and as ref the
\* version's tag or commit, or main when there is no version.
C27_OwnerRepoFile ==
  (OnGithubPath /\ Len(unit.path.segs) >= 3 /\ unit.path.segs[3] \notin {"blob", "tree"}) =>
    LET s == unit.path.segs IN
    unit.ret = [err |-> NoError,
                val |-> RawContentURL(s[1], s[2], RefOf(unit.version),
                                      SubSeq(s, 3, Len(s)))]

\* C27 witness: a path of six segments with a commit as version.
C27_Witness ==
  /\ OnGithubPath
  /\ unit.path.segs = <<"x", "blob", "x", "tree", "x", "x">>
  /\ unit.version = GitVersion("Commit", "abc")
  /\ unit.ret.val = "https://raw.githubusercontent.com/x/blob/abc/x/tree/x/x"


\* C28: Claude IDE materialization is deterministic: whichever way a call with
\* the same Ide section and the same existing files runs, the settings
\* document it produces is the same, the order of the mcp__<name> entries of
\* allow and of the names of enabledMcpjsonServers included.
C28_Deterministic ==
  ClaudeMaterialized =>
    \A order \in RangeOrders(unit.ide.mcp.servers) :
      ProducedSettingsDoc(IDEMaterialize(unit.self, unit.ide, unit.files, order).result)
        = ProducedSettingsDoc(unit.ret.result)

\* C29: in a result of a Claude IDE materialization, every server name of the
\* spec, which the call adds to enabledMcpjsonServers and as mcp__<name> to
\* allow, is a key of mcpServers in the MCP-servers entry of the same result,
\* also when the server has no variant set.
C29_EnabledAreDefined ==
  ClaudeMaterialized =>
    \A n \in DOMAIN ServersOf(unit.ide) :
      /\ n \in ResultLists(unit.ret.result).enabled
      /\ ("mcp__" \o n) \in ResultLists(unit.ret.result).allow
      /\ WrittenTo(unit.ret.result.entries, ClaudeMcpPath).written
      /\ n \in DOMAIN ProducedServers(unit.ret.result, ClaudeMcpPath)


\* C30: the file read as existing for the merge is the file that persistence
\* then overwrites.  After Materialize and the writing of its result under a
\* root directory, every allow, deny and ask entry and every MCP server that
\* root's settings and MCP files held before the call is still in them, also
\* when root is not the working directory the call read from.
Persisted ==
  /\ pc = "unit"
  /\ unit.op = "PersistMaterializedResult"

RootKeeps(before, after) ==
  /\ \A key \in {"allow", "deny", "ask"} :
       FileLists(before)[key] \subseteq FileLists(after)[key]
  /\ \A path \in {ClaudeMcpPath, CursorMcpPath} :
       DOMAIN ExistingServers(before, path) \subseteq DOMAIN ExistingServers(after, path)

C30_RootKeepsExisting ==
  Persisted => RootKeeps(unit.rootBefore, unit.rootAfter)

====
